---------------------------- MODULE Spec2Model ----------------------------
(***************************************************************************)
(* Verification model of the Hacker News sorting validator:               *)
(*   - HackerNewsPage.getArticleElements, the paginated collector,        *)
(*   - TestRunner.executeTestSteps / handleTestError, one test run,       *)
(*   - validationUtils.js: calculateSortingAccuracy,                      *)
(*     detectSortingAnomalies, validateArticleData and the assertions.    *)
(*                                                                         *)
(* Conventions.  A timestamp is a positive number of ticks,               *)
(* TicksPerMinute ticks to the minute; JavaScript's null timestamp is     *)
(* NullTs, a null string is NullStr and a null score is NullScore.        *)
(* Positions inside anomaly and issue records are 0-based as in the code; *)
(* TLA+ sequences are 1-based, so article i of the code is articles[i+1]. *)
(* Percentages that the code rounds with toFixed(2) are kept in           *)
(* hundredths of a percent (10000 = 100.00%).                              *)
(***************************************************************************)
EXTENDS Integers, Sequences, FiniteSets, TLC

\* ------------------------------------------------------------------ bounds
MaxLen == 4              \* longest record sequence given to the validators
MaxTick == 4             \* timestamps of the near cluster are 1..MaxTick
MaxFieldLen == 2         \* longest sequence of the field-presence inputs
MaxAnchors == 2          \* largest page of the small-target worlds
SmallTarget == 3         \* the small target count
MaxDrift == 1            \* entries the listing may shift during one run
TicksPerMinute == 2      \* resolution of the model's clock
MaxLateCalls == 3        \* calls of a timed-out operation that are followed
LongRun == 14            \* longest record sequence given to the scorer

\* ------------------------------------------------------- program constants
maxPages == 5
maxRetries == 2
targetArticleCount == 100
HNPageSize == 30
sortingAccuracyThreshold == 20
performanceThreshold == 5000
maxConsecutive == 3
LargeJumpMinutes == 60

NullTs == 0
NullScore == 0 - 1
NullStr == "null"

\* ---------------------------------------------------------------- helpers
Min(a, b) == IF a <= b THEN a ELSE b
Max(a, b) == IF a >= b THEN a ELSE b
Abs(a) == IF a < 0 THEN 0 - a ELSE a

\* Array.prototype.slice(0, n)
Slice0(s, n) == SubSeq(s, 1, Min(Max(n, 0), Len(s)))

MomentDiffMinutes_swapped(a, b) ==
  IF b >= a THEN (b - a) \div TicksPerMinute
  ELSE 0 - ((a - b) \div TicksPerMinute)

\* moment(a).diff(moment(b), 'minutes'): the difference truncated toward zero
MomentDiffMinutes(a, b) ==
  IF a >= b THEN (a - b) \div TicksPerMinute
  ELSE 0 - ((b - a) \div TicksPerMinute)

\* moment(t).format('YYYY-MM-DD HH:mm'): the instant truncated to its minute
MinuteKey(t) == t \div TicksPerMinute

\* parseFloat(((num / den) * 100).toFixed(2)), in hundredths of a percent
PercentFixed2(num, den) == (num * 20000 + den) \div (2 * den)

\* String.prototype.trim on the title values of the model
Trim(s) == IF s \in {"", " "} THEN "" ELSE s

\* JavaScript truthiness of a timestamp, of a string
HasTs(a) == a.timestamp # NullTs
Truthy(s) == s # NullStr /\ s # ""

\* ------------------------------------- text, as JavaScript strings hold it
\* A text is the sequence of its characters, so that trimming, searching and
\* matching are computed on it as the code computes them.
DigitChars == <<"0", "1", "2", "3", "4", "5", "6", "7", "8", "9">>
IsDigit(c) == \E d \in 1..10 : DigitChars[d] = c
DigitValue(c) == (CHOOSE d \in 1..10 : DigitChars[d] = c) - 1
IsSpace(c) == c = " "

\* String.prototype.toLowerCase on the letters the texts of the model use
LowerChar(c) ==
  CASE c = "A" -> "a" [] c = "H" -> "h" [] c = "J" -> "j" [] c = "N" -> "n"
    [] c = "S" -> "s" [] OTHER -> c
ToLowerCase(text) == [i \in 1..Len(text) |-> LowerChar(text[i])]

\* String.prototype.trim
TrimChars(text) ==
  LET inked == {i \in 1..Len(text) : ~IsSpace(text[i])}
  IN  IF inked = {} THEN <<>>
      ELSE SubSeq(text, CHOOSE i \in inked : \A j \in inked : i <= j,
                        CHOOSE i \in inked : \A j \in inked : j <= i)

\* `word` stands in `text` at position i; String.prototype.includes
StandsAt(text, word, i) ==
  /\ i >= 1
  /\ i + Len(word) - 1 <= Len(text)
  /\ \A k \in 1..Len(word) : text[i + k - 1] = word[k]
Includes(text, word) == \E i \in 1..(Len(text) + 1) : StandsAt(text, word, i)

\* the first position from i on that holds no digit (no blank)
RECURSIVE SkipDigits(_, _)
SkipDigits(text, i) ==
  IF i <= Len(text) /\ IsDigit(text[i]) THEN SkipDigits(text, i + 1) ELSE i
RECURSIVE SkipSpaces(_, _)
SkipSpaces(text, i) ==
  IF i <= Len(text) /\ IsSpace(text[i]) THEN SkipSpaces(text, i + 1) ELSE i

\* parseInt of a run of digits
RECURSIVE ParseInt(_)
ParseInt(run) ==
  IF run = <<>> THEN 0
  ELSE 10 * ParseInt(SubSeq(run, 1, Len(run) - 1)) + DigitValue(run[Len(run)])

\* ------------------------------------ HackerNewsPage.parseHackerNewsTimestamp
TimeUnits == <<"minute", "hour", "day", "month", "year">>
UnitChars(unit) ==
  CASE unit = "minute" -> <<"m", "i", "n", "u", "t", "e">>
    [] unit = "hour" -> <<"h", "o", "u", "r">>
    [] unit = "day" -> <<"d", "a", "y">>
    [] unit = "month" -> <<"m", "o", "n", "t", "h">>
    [] unit = "year" -> <<"y", "e", "a", "r">>
    [] unit = "week" -> <<"w", "e", "e", "k">>
    [] OTHER -> <<"H", "o", "u", "r">>
AgoChars == <<"a", "g", "o">>
JustNowChars == <<"j", "u", "s", "t", " ", "n", "o", "w">>
NowChars == <<"n", "o", "w">>

\* minutes in one unit; moment subtracts months and years by the calendar,
\* taken here as 30 and 365 days
MinutesIn(unit) ==
  CASE unit = "minute" -> 1
    [] unit = "hour" -> 60
    [] unit = "day" -> 1440
    [] unit = "month" -> 43200
    [] OTHER -> 525600

\* const now = moment()
NowTick == 10000000 * TicksPerMinute

NoMatch == [matched |-> FALSE]

\* /(\d+)\s*(minute|hour|day|month|year)s?\s*ago/ tried at position i: the
\* digits are taken greedily, then blanks, a unit, an optional s, blanks, ago
MatchAt(text, i) ==
  IF ~(i <= Len(text) /\ IsDigit(text[i])) THEN NoMatch
  ELSE LET afterDigits == SkipDigits(text, i)
           unitAt == SkipSpaces(text, afterDigits)
           units == {u \in 1..Len(TimeUnits) :
                       StandsAt(text, UnitChars(TimeUnits[u]), unitAt)}
       IN  IF units = {} THEN NoMatch
           ELSE LET unit == TimeUnits[CHOOSE u \in units : TRUE]
                    afterUnit == unitAt + Len(UnitChars(unit))
                    afterS == IF afterUnit <= Len(text) /\ text[afterUnit] = "s"
                              THEN afterUnit + 1 ELSE afterUnit
                    agoAt == SkipSpaces(text, afterS)
                IN  IF StandsAt(text, AgoChars, agoAt)
                    THEN [matched |-> TRUE,
                          amount |-> SubSeq(text, i, afterDigits - 1),
                          unit |-> unit]
                    ELSE NoMatch

\* String.prototype.match without the g flag: the leftmost match
RegexMatch(text) ==
  LET starts == {i \in 1..Len(text) : MatchAt(text, i).matched}
  IN  IF starts = {} THEN NoMatch
      ELSE MatchAt(text, CHOOSE i \in starts : \A j \in starts : i <= j)

\* the Date returned, as a tick; NullTs for null
parseHackerNewsTimestamp(timestampTextArg, now) ==
  IF timestampTextArg = <<>> THEN NullTs
  ELSE LET text == TrimChars(ToLowerCase(timestampTextArg))
       IN  IF Includes(text, JustNowChars) \/ text = NowChars THEN now
           ELSE LET match == RegexMatch(text)
                IN  IF ~match.matched THEN NullTs
                    ELSE now - ParseInt(match.amount) * MinutesIn(match.unit)
                               * TicksPerMinute

\* ------------------------------------------- validationUtils.js (pure part)

\* the loop of calculateSortingAccuracy: the pairs it counts as correct and as
\* incorrect (a pair with a missing timestamp is counted as neither)
CountPairs(articles) ==
  LET pairs == {i \in 0..(Len(articles) - 2) :
                  HasTs(articles[i + 1]) /\ HasTs(articles[i + 2])}
      correct == {i \in pairs :
                    articles[i + 1].timestamp >= articles[i + 2].timestamp}
  IN  [correctPairs |-> Cardinality(correct),
       incorrectPairs |-> Cardinality(pairs \ correct)]

calculateSortingAccuracy_perRecord(articles) ==
  IF Len(articles) < 2
  THEN [accuracy |-> 10000, totalPairs |-> 0, correctPairs |-> 0,
        incorrectPairs |-> 0, errorRate |-> 0]
  ELSE LET c == CountPairs(articles)
           totalPairs == Len(articles) - 1
       IN  [accuracy |-> PercentFixed2(c.correctPairs + 1, totalPairs),
            totalPairs |-> totalPairs,
            correctPairs |-> c.correctPairs,
            incorrectPairs |-> c.incorrectPairs,
            errorRate |-> PercentFixed2(c.incorrectPairs, totalPairs)]

calculateSortingAccuracy(articles) ==
  IF Len(articles) < 2
  THEN [accuracy |-> 10000, totalPairs |-> 0, correctPairs |-> 0,
        incorrectPairs |-> 0, errorRate |-> 0]
  ELSE LET c == CountPairs(articles)
           totalPairs == Len(articles) - 1
       IN  [accuracy |-> IF totalPairs > 0
                         THEN PercentFixed2(c.correctPairs, totalPairs)
                         ELSE 10000,
            totalPairs |-> totalPairs,
            correctPairs |-> c.correctPairs,
            incorrectPairs |-> c.incorrectPairs,
            errorRate |-> PercentFixed2(c.incorrectPairs, totalPairs)]

\* the running state of detectSortingAnomalies before its loop
AnomalyStart ==
  [anomalies |-> <<>>, consecutiveErrors |-> 0, largeTimeJumps |-> 0,
   duplicateTimestamps |-> 0, consecutiveErrorCount |-> 0,
   seenKeys |-> {}]

\* seenTimestamps (a Map) is the set seenKeys of <<key, position>> entries
SeenGet(st, key) == (CHOOSE e \in st.seenKeys : e[1] = key)[2]
SeenHas(st, key) == \E e \in st.seenKeys : e[1] = key

\* one iteration of the loop of detectSortingAnomalies, at index i (0-based)
AnomalyStep(articles, i, st) ==
  LET current == articles[i + 1]
      next == articles[i + 2]
  IN
  IF ~HasTs(current) \/ ~HasTs(next) THEN st
  ELSE
    LET timeDiffMinutes == MomentDiffMinutes(current.timestamp, next.timestamp)
        s1 == IF timeDiffMinutes < 0
              THEN [st EXCEPT !.consecutiveErrorCount = @ + 1,
                              !.anomalies = Append(@,
                                 [type |-> "sorting_error", position |-> i,
                                  timeDifference |-> Abs(timeDiffMinutes),
                                  originalPosition |-> 0 - 1])]
              ELSE IF st.consecutiveErrorCount > 0
                   THEN [st EXCEPT !.consecutiveErrors =
                                      Max(@, st.consecutiveErrorCount),
                                   !.consecutiveErrorCount = 0]
                   ELSE st
        s2 == IF timeDiffMinutes > LargeJumpMinutes
              THEN [s1 EXCEPT !.largeTimeJumps = @ + 1,
                              !.anomalies = Append(@,
                                 [type |-> "large_time_jump", position |-> i,
                                  timeDifference |-> timeDiffMinutes,
                                  originalPosition |-> 0 - 1])]
              ELSE s1
        timestampKey == MinuteKey(current.timestamp)
    IN  IF SeenHas(s2, timestampKey)
        THEN [s2 EXCEPT !.duplicateTimestamps = @ + 1,
                        !.anomalies = Append(@,
                           [type |-> "duplicate_timestamp", position |-> i,
                            timeDifference |-> 0,
                            originalPosition |-> SeenGet(s2, timestampKey)])]
        ELSE [s2 EXCEPT !.seenKeys = @ \cup {<<timestampKey, i>>}]

\* the for loop over the indices lo..hi (0-based), left to right.  The range
\* is halved rather than peeled so that 100 iterations do not nest 100 deep;
\* the test on `left` is always true and only makes the left half be
\* evaluated before the right half starts.
RECURSIVE AnomalyLoop(_, _, _, _)
AnomalyLoop(articles, lo, hi, st) ==
  IF lo > hi THEN st
  ELSE IF lo = hi THEN AnomalyStep(articles, lo, st)
  ELSE LET mid == (lo + hi) \div 2
           left == AnomalyLoop(articles, lo, mid, st)
       IN  IF left.consecutiveErrorCount >= 0
           THEN AnomalyLoop(articles, mid + 1, hi, left)
           ELSE left

IsSortingError(a) == a.type = "sorting_error"
IsLargeJump(a) == a.type = "large_time_jump"
IsDuplicate(a) == a.type = "duplicate_timestamp"
IsWarning(a) == a.type # "sorting_error"

CountType(anoms, type) ==
  Len(SelectSeq(anoms, LAMBDA a : a.type = type))

detectSortingAnomalies(articles) ==
  LET st == AnomalyLoop(articles, 0, Len(articles) - 2, AnomalyStart)
      consecutiveErrors == IF st.consecutiveErrorCount > 0
                           THEN Max(st.consecutiveErrors, st.consecutiveErrorCount)
                           ELSE st.consecutiveErrors
  IN  [anomalies |-> st.anomalies,
       patterns |-> [consecutiveErrors |-> consecutiveErrors,
                     largeTimeJumps |-> st.largeTimeJumps,
                     duplicateTimestamps |-> st.duplicateTimestamps],
       summary |-> [totalAnomalies |-> Len(st.anomalies),
                    criticalIssues |-> Len(SelectSeq(st.anomalies, IsSortingError)),
                    warnings |-> Len(SelectSeq(st.anomalies, IsWarning))]]

\* the forEach body of validateArticleData for the article at `index`
ArticleIssues(article, index) ==
  (IF ~Truthy(article.title) \/ Trim(article.title) = ""
   THEN <<[position |-> index, type |-> "missing_title"]>> ELSE <<>>)
  \o (IF ~HasTs(article)
      THEN <<[position |-> index, type |-> "missing_timestamp"]>> ELSE <<>>)
  \o (IF ~Truthy(article.author)
      THEN <<[position |-> index, type |-> "missing_author"]>> ELSE <<>>)
  \o (IF article.score = NullScore
      THEN <<[position |-> index, type |-> "missing_score"]>> ELSE <<>>)

\* isComplete is cleared by a missing title and a missing timestamp only
IsCompleteArticle(article) ==
  /\ ~(~Truthy(article.title) \/ Trim(article.title) = "")
  /\ HasTs(article)

RECURSIVE AllIssues(_, _)
AllIssues(articles, index) ==
  IF index >= Len(articles) THEN <<>>
  ELSE ArticleIssues(articles[index + 1], index) \o AllIssues(articles, index + 1)

IsMissingTitle(e) == e.type = "missing_title"
IsMissingTimestamp(e) == e.type = "missing_timestamp"
IsMissingAuthor(e) == e.type = "missing_author"
IsMissingScore(e) == e.type = "missing_score"

\* completenessRatio is the exact quotient num / den (not rounded by the code)
validateArticleData(articles) ==
  LET issues == AllIssues(articles, 0)
      total == Len(articles)
      complete == Len(SelectSeq(articles, IsCompleteArticle))
  IN  [issues |-> issues,
       statistics |-> [total |-> total,
                       complete |-> complete,
                       missingTitle |-> Len(SelectSeq(issues, IsMissingTitle)),
                       missingTimestamp |-> Len(SelectSeq(issues, IsMissingTimestamp)),
                       missingAuthor |-> Len(SelectSeq(issues, IsMissingAuthor)),
                       missingScore |-> Len(SelectSeq(issues, IsMissingScore))],
       completenessRatio |-> IF total > 0
                             THEN [num |-> complete * 100, den |-> total]
                             ELSE [num |-> 0, den |-> 1]]

\* the `assertions` object: TRUE when the assertion throws
assertSortingAccuracyThrows(accuracy, threshold) == accuracy < threshold * 100
assertNoMissingTimestampsThrows(articles) ==
  Len(SelectSeq(articles, LAMBDA a : ~HasTs(a))) > 0
assertPerformanceThrows(loadTime, threshold) == loadTime > threshold
assertNoConsecutiveSortingErrorsThrows(anomalies, maxConsec) ==
  anomalies.patterns.consecutiveErrors > maxConsec

\* ------------------------------------------------------------------ state
VARIABLES
  pc,               \* position of the run (or of the validator harness)
  count,            \* getArticleElements(count)
  pageSize,         \* anchors the source lists per page
  listingOrder,     \* "newestFirst" or "oldestFirst": how the source is sorted
  sourcePos,        \* id of the entry that follows the last page appended
  drifted,          \* entries the listing has shifted by so far
  loadTime,         \* result of navigateToNewest, ms
  allArticleData,   \* the collector's accumulator
  pageNum,          \* the collector's page counter
  retry,            \* the page-level attempt number
  moreLink,         \* what the last read of the More link found
  pageArticles,     \* anchors of the page attempt that just succeeded
  outOfOrder,       \* that attempt's extractions settled out of dispatch order
  pagesStarted,     \* page numbers whose processing began, in order
  pageYields,       \* records with a timestamp found on each page appended
  skippedPage,      \* page that exhausted its attempts, 0 if none
  stepFailed,       \* some page attempt or link read failed during the run
  articles,         \* the records handed to the validators
  sortingAccuracy,  \* calculateSortingAccuracy(articles)
  anomalies,        \* detectSortingAnomalies(articles)
  dataValidation,   \* validateArticleData(articles)
  prevValidation,   \* validateArticleData before a field was removed
  removed,          \* <<position, field>> removed from `articles`, or <<>>
  testResults,      \* what runSingleTest's attempt returns
  timestampText,    \* the text handed to parseHackerNewsTimestamp
  phrase,           \* the parts that text was written from
  parsed,           \* what parseHackerNewsTimestamp returned
  browserName,      \* the browser extractArticleData runs in
  titleStrategies,  \* what each title strategy meets in the DOM
  timestampTexts,   \* the timestamp text each extraction attempt reads
  extracted,        \* what extractArticleData returned
  historyFile,      \* the persisted metrics history file
  metricsHistory,   \* QualityMetricsTracker.metricsHistory
  browserResults,   \* TestOrchestrator.testResults
  apiTestResults,   \* what runApiTests returned
  securityTestResults, \* what runSecurityTests returned
  currentMetrics,   \* QualityMetricsTracker.currentMetrics
  retryAttempt,     \* the attempt number of the retry helper
  fnCalls,          \* how often the retry helper has invoked its operation
  retryWaits,       \* the waits of the retry helper, ms, in order
  navAttempt,       \* the attempt number of navigateToNewest
  gotoCalls,        \* page.goto calls of this navigateToNewest
  navWaits,         \* the waits of navigateToNewest, ms, in order
  elapsed,          \* ms since withTimeout started the navigation step
  lastError,        \* the error caught last
  reported,         \* the result runSingleTest's operation returned
  thrown,           \* the error that left runSingleTest
  openBrowsers,     \* browsers launched by runSingleTest and not closed
  pending,          \* the page call a timed-out navigateToNewest still awaits
  lateCalls,        \* page calls issued after withTimeout rejected, in order
  requestLog,       \* testContext.requestLog
  failedRequests,   \* testContext.failedRequests
  requestsSeen,     \* "request" events the page has emitted
  failuresSeen,     \* "requestfailed" events the page has emitted
  availableBrowsers, \* what getAvailableBrowsers returned
  browserIndex,     \* runBrowserTests' position in availableBrowsers
  viewportIndex,    \* runBrowserTests' position in the viewports
  peripheralFailures, \* the peripheral steps whose error was caught
  reportsInvoked,   \* generateAllReports was called
  finalSummary      \* what displayFinalSummary returned

vars == <<pc, count, pageSize, listingOrder, sourcePos, drifted, loadTime,
          allArticleData,
          pageNum, retry, moreLink, pageArticles, outOfOrder, pagesStarted,
          pageYields, skippedPage, stepFailed, articles, sortingAccuracy,
          anomalies,
          dataValidation, prevValidation, removed, testResults,
          timestampText, phrase, parsed,
          browserName, titleStrategies, timestampTexts, extracted,
          historyFile, metricsHistory, browserResults, apiTestResults,
          securityTestResults, currentMetrics,
          retryAttempt, fnCalls, retryWaits, navAttempt, gotoCalls, navWaits,
          elapsed, lastError, reported, thrown,
          openBrowsers, pending, lateCalls,
          requestLog, failedRequests, requestsSeen, failuresSeen,
          availableBrowsers, browserIndex, viewportIndex, peripheralFailures,
          reportsInvoked, finalSummary>>

\* the variables of one test run, without its position
runVars == <<count, pageSize, listingOrder, sourcePos, drifted, loadTime,
             allArticleData,
             pageNum, retry, moreLink, pageArticles, outOfOrder, pagesStarted,
             pageYields, skippedPage, stepFailed, articles, sortingAccuracy,
             anomalies, dataValidation, prevValidation, removed, testResults>>

collectorVars == <<allArticleData, pageNum, retry, moreLink, pageArticles,
                   outOfOrder, pagesStarted, pageYields, skippedPage,
                   stepFailed, sourcePos, drifted>>
worldVars == <<count, pageSize, listingOrder>>
validatorVars == <<articles, sortingAccuracy, anomalies, dataValidation>>
harnessVars == <<prevValidation, removed>>
parserVars == <<timestampText, phrase, parsed>>
extractionVars == <<browserName, titleStrategies, timestampTexts, extracted>>
metricsVars == <<historyFile, metricsHistory, browserResults, apiTestResults,
                 securityTestResults, currentMetrics>>
retryVars == <<retryAttempt, fnCalls, retryWaits, lastError, reported, thrown>>
navigationVars == <<navAttempt, gotoCalls, navWaits, elapsed>>
contextVars == <<openBrowsers, pending, lateCalls>>
monitorVars == <<requestLog, failedRequests, requestsSeen, failuresSeen>>
runnerVars == <<retryVars, navigationVars, contextVars, monitorVars>>
orchestratorVars == <<availableBrowsers, browserIndex, viewportIndex,
                      peripheralFailures, reportsInvoked, finalSummary>>
extVars == <<parserVars, extractionVars, metricsVars, runnerVars,
             orchestratorVars>>
besideParser == <<runVars, extractionVars, metricsVars, runnerVars,
                  orchestratorVars>>
besideExtraction == <<parserVars, metricsVars, runnerVars, orchestratorVars>>
besideMetrics == <<runVars, parserVars, extractionVars, runnerVars,
                   orchestratorVars>>
besideRunner == <<runVars, parserVars, extractionVars, metricsVars,
                  orchestratorVars, monitorVars>>
besideOrchestrator == <<runVars, parserVars, extractionVars, navigationVars,
                        contextVars, monitorVars>>
besideMonitor == <<runVars, parserVars, extractionVars, metricsVars,
                   orchestratorVars, retryVars, navigationVars, contextVars>>

\* no call of a timed-out operation is outstanding
NothingPending ==
  [op |-> "none", selector |-> 0, attempt |-> 0, run |-> 0, closed |-> FALSE]

NoResult == [none |-> TRUE]

\* the variables of the other components while one component is examined
ParserIdle ==
  /\ timestampText = <<>>
  /\ phrase = NoResult
  /\ parsed = NoResult
ExtractionIdle ==
  /\ browserName = "chromium"
  /\ titleStrategies = <<>>
  /\ timestampTexts = <<>>
  /\ extracted = NoResult
MetricsIdle ==
  /\ historyFile = [exists |-> FALSE, entries |-> <<>>]
  /\ metricsHistory = <<>>
  /\ browserResults = <<>>
  /\ apiTestResults = NoResult
  /\ securityTestResults = NoResult
  /\ currentMetrics = NoResult
RunnerIdle ==
  /\ retryAttempt = 1
  /\ fnCalls = 0
  /\ retryWaits = <<>>
  /\ navAttempt = 0
  /\ gotoCalls = 0
  /\ navWaits = <<>>
  /\ elapsed = 0
  /\ lastError = "none"
  /\ reported = NoResult
  /\ thrown = "none"
  /\ openBrowsers = 0
  /\ pending = NothingPending
  /\ lateCalls = <<>>
  /\ requestLog = <<>>
  /\ failedRequests = <<>>
  /\ requestsSeen = 0
  /\ failuresSeen = 0
OrchestratorIdle ==
  /\ availableBrowsers = <<>>
  /\ browserIndex = 1
  /\ viewportIndex = 1
  /\ peripheralFailures = {}
  /\ reportsInvoked = FALSE
  /\ finalSummary = NoResult
ExtIdle ==
  /\ ParserIdle
  /\ ExtractionIdle
  /\ MetricsIdle
  /\ RunnerIdle
  /\ OrchestratorIdle

\* ------------------------------------------------------- the source listing
\* An entry of the listing is known by its id; the listing advances one
\* minute per entry, newest first or (a badly sorted source) oldest first.
BaseTime == 200 * TicksPerMinute
TsOf(order, id) ==
  IF order = "newestFirst" THEN BaseTime - id * TicksPerMinute
  ELSE BaseTime + id * TicksPerMinute

\* What the DOM gives for one anchor: "ok" resolves its timestamp at once,
\* "flaky" only on the second extraction attempt, "noTime" never.
AnchorDoms == {"ok", "flaky", "noTime"}
PageDoms(n) ==
  IF n <= MaxAnchors THEN [1..n -> AnchorDoms]
  ELSE {[i \in 1..n |-> "ok"],
        [i \in 1..n |-> IF i = 1 THEN "noTime" ELSE "ok"]}

Identity(n) == [i \in 1..n |-> i]
Reverse(n) == [i \in 1..n |-> n + 1 - i]
CompletionOrders(n) ==
  IF n <= MaxAnchors
  THEN {f \in [1..n -> 1..n] : \A i, j \in 1..n : i # j => f[i] # f[j]}
  ELSE {Identity(n), Reverse(n)}

\* --------------------------------------------- HackerNewsPage (the collector)
NullArticle == [id |-> 0 - 1, title |-> NullStr, author |-> NullStr,
                score |-> NullScore, timestamp |-> NullTs, extractionAttempt |-> 0]
IsNullArticle(a) == a.id = 0 - 1

\* one attempt of extractArticleData: the timestamp found, NullTs if it throws
ExtractAttempt(order, anchor, attempt) ==
  IF anchor.dom = "ok" \/ (anchor.dom = "flaky" /\ attempt >= 2)
  THEN TsOf(order, anchor.id) ELSE NullTs

RECURSIVE ExtractFrom(_, _, _)
ExtractFrom(order, anchor, attempt) ==
  IF attempt > maxRetries THEN NullArticle
  ELSE LET timestamp == ExtractAttempt(order, anchor, attempt)
       IN  IF timestamp # NullTs
           THEN [id |-> anchor.id, title |-> "A story title", author |-> "pg",
                 score |-> 0, timestamp |-> timestamp,
                 extractionAttempt |-> attempt]
           ELSE ExtractFrom(order, anchor, attempt + 1)

extractArticleData(order, anchor) == ExtractFrom(order, anchor, 1)

\* Promise.all: each promise stores its value in the slot of its own index
\* when it settles; `order` is the order in which the promises settle.
RECURSIVE SettleAll(_, _, _, _)
SettleAll(values, order, k, slots) ==
  IF k > Len(order) THEN slots
  ELSE SettleAll(values, order, k + 1,
                 [slots EXCEPT ![order[k]] = values[order[k]]])

PromiseAll_completionOrder(values, order) ==
  [k \in 1..Len(values) |-> values[order[k]]]

PromiseAll(values, order) ==
  SettleAll(values, order, 1, [i \in 1..Len(values) |-> NullArticle])

IsValidArticle(article) == ~IsNullArticle(article) /\ HasTs(article)

\* lines 170-176: extract every anchor of the page concurrently, join, filter
PageValidArticles(order, anchors, settle) ==
  LET pageArticleData ==
        PromiseAll([i \in 1..Len(anchors) |-> extractArticleData(order, anchors[i])],
                   settle)
  IN  SelectSeq(pageArticleData, IsValidArticle)

\* line 178: allArticleData.push(...validArticles.slice(0, count - length))
AppendPage_overwrite(all, target, validArticles) ==
  Slice0(validArticles, target - Len(all))

AppendPage(all, target, validArticles) ==
  all \o Slice0(validArticles, target - Len(all))

\* line 144: the condition of the page loop
WhileCondition_sixPages(len, target, page) == len < target /\ page <= maxPages + 1

WhileCondition(len, target, page) == len < target /\ page <= maxPages

\* ------------------------------------- extractArticleData, the title chain
\* the texts title elements hold in the model, and their characters
TitleTexts ==
  {"Title 1", "Title 2", "Title 3", "Title 4", "Title 5",
   " Title 1 ", " Title 2 ", " Title 3 ", " Title 4 ", " Title 5 ",
   "2 hours ago", "Comments", "Short", "   ", "Monday",
   "No title"}
TextChars(text) ==
  CASE text = "Title 1" -> <<"T", "i", "t", "l", "e", " ", "1">>
    [] text = "Title 2" -> <<"T", "i", "t", "l", "e", " ", "2">>
    [] text = "Title 3" -> <<"T", "i", "t", "l", "e", " ", "3">>
    [] text = "Title 4" -> <<"T", "i", "t", "l", "e", " ", "4">>
    [] text = "Title 5" -> <<"T", "i", "t", "l", "e", " ", "5">>
    [] text = " Title 1 " -> <<" ", "T", "i", "t", "l", "e", " ", "1", " ">>
    [] text = " Title 2 " -> <<" ", "T", "i", "t", "l", "e", " ", "2", " ">>
    [] text = " Title 3 " -> <<" ", "T", "i", "t", "l", "e", " ", "3", " ">>
    [] text = " Title 4 " -> <<" ", "T", "i", "t", "l", "e", " ", "4", " ">>
    [] text = " Title 5 " -> <<" ", "T", "i", "t", "l", "e", " ", "5", " ">>
    [] text = "2 hours ago" -> <<"2", " ", "h", "o", "u", "r", "s", " ", "a", "g", "o">>
    [] text = "Comments" -> <<"C", "o", "m", "m", "e", "n", "t", "s">>
    [] text = "Short" -> <<"S", "h", "o", "r", "t">>
    [] text = "   " -> <<" ", " ", " ">>
    [] text = "Monday" -> <<"M", "o", "n", "d", "a", "y">>
    [] OTHER -> <<"N", "o", " ", "t", "i", "t", "l", "e">>

\* the string with the characters of text.trim()
TrimText(text) ==
  CHOOSE t \in TitleTexts : TextChars(t) = TrimChars(TextChars(text))

\* lines 315-322: is the candidate a title, not a timestamp or other element
isValidTitle(extractedTitle) ==
  LET chars == TextChars(extractedTitle)
  IN  /\ chars # <<>>
      /\ TrimChars(chars) # <<>>
      /\ extractedTitle # "Comments"
      /\ ~Includes(chars, AgoChars)
      /\ ~Includes(chars, UnitChars("minute"))
      /\ ~Includes(chars, UnitChars("hour"))
      /\ ~Includes(chars, UnitChars("day"))
      /\ Len(chars) > 5

ValidTitle(k) ==
  CASE k = 1 -> "Title 1" [] k = 2 -> "Title 2" [] k = 3 -> "Title 3"
    [] k = 4 -> "Title 4" [] OTHER -> "Title 5"
PaddedTitle(k) ==
  CASE k = 1 -> " Title 1 " [] k = 2 -> " Title 2 " [] k = 3 -> " Title 3 "
    [] k = 4 -> " Title 4 " [] OTHER -> " Title 5 "

\* What a title strategy meets in the DOM: its query throws, finds no
\* element, or finds an element with a text.
StrategyKinds == {"throws", "none", "invalid", "valid", "padded"}
StrategyCount == 5
CandidateText(k, kind) ==
  CASE kind = "valid" -> ValidTitle(k)
    [] kind = "padded" -> PaddedTitle(k)
    [] k = 1 -> "2 hours ago"
    [] k = 2 -> "Comments"
    [] k = 3 -> "Short"
    [] k = 4 -> "   "
    [] OTHER -> "Monday"

\* strategy 5 queries the page on firefox only and is null elsewhere
StrategyFinds(strategies, browser, k) ==
  /\ strategies[k] \notin {"throws", "none"}
  /\ (k = 5 => browser = "firefox")

\* lines 308-335: the first strategy from k on with a valid candidate wins
RECURSIVE TitleFrom_lastWins(_, _, _)
TitleFrom_lastWins(strategies, browser, k) ==
  IF k > StrategyCount THEN "No title"
  ELSE LET later == TitleFrom_lastWins(strategies, browser, k + 1)
       IN  IF /\ later = "No title"
              /\ StrategyFinds(strategies, browser, k)
              /\ isValidTitle(CandidateText(k, strategies[k]))
           THEN TrimText(CandidateText(k, strategies[k]))
           ELSE later

RECURSIVE TitleFrom(_, _, _)
TitleFrom(strategies, browser, k) ==
  IF k > StrategyCount THEN "No title"
  ELSE IF /\ StrategyFinds(strategies, browser, k)
          /\ isValidTitle(CandidateText(k, strategies[k]))
       THEN TrimText(CandidateText(k, strategies[k]))
       ELSE TitleFrom(strategies, browser, k + 1)

\* one pass of the attempt loop: NullArticle when the attempt throws
ExtractionAttempt(strategies, browser, texts, attempt) ==
  LET found == parseHackerNewsTimestamp(texts[attempt], NowTick)
      title == TitleFrom(strategies, browser, 1)
  IN  IF found = NullTs THEN NullArticle
      ELSE [id |-> 1, title |-> TrimText(title), author |-> "pg", score |-> 0,
            timestamp |-> found, extractionAttempt |-> attempt]

\* lines 283-460: the attempt loop, null after maxRetries failed attempts
RECURSIVE ExtractWithTitle(_, _, _, _)
ExtractWithTitle(strategies, browser, texts, attempt) ==
  IF attempt > maxRetries THEN NullArticle
  ELSE LET result == ExtractionAttempt(strategies, browser, texts, attempt)
       IN  IF ~IsNullArticle(result) THEN result
           ELSE ExtractWithTitle(strategies, browser, texts, attempt + 1)

\* the number of passes of the attempt loop that call yields or ends with
RECURSIVE ExtractionAttemptsMade(_, _, _, _)
ExtractionAttemptsMade(strategies, browser, texts, attempt) ==
  IF attempt > maxRetries THEN attempt - 1
  ELSE IF ~IsNullArticle(ExtractionAttempt(strategies, browser, texts, attempt))
       THEN attempt
       ELSE ExtractionAttemptsMade(strategies, browser, texts, attempt + 1)

\* ------------------------------------------------- QualityMetricsTracker
\* JavaScript objects are records; a property the object lacks reads as
\* undefined, and null is the record NullValue.
NullValue == [null |-> TRUE]
IsObject(v) == v # NullValue /\ v # NoResult
HasProp(obj, key) == IsObject(obj) /\ key \in DOMAIN obj
SetProp(obj, key, value) ==
  [k \in DOMAIN obj \cup {key} |-> IF k = key THEN value ELSE obj[k]]

retentionDays == 30
overallQualityThreshold == 85
ExpectedArticles == 100
ExtractionPassCount == 90
ConsistencyPenalty == 10
DefaultSecurityScore == 95

\* Scores are kept exact: a score in hundredths carries the suffix H, one in
\* thousandths the suffix M.

\* calculateFunctionalMetrics: sortingAccuracy.value in hundredths,
\* dataExtraction.completeness and consistencyScore.value as whole numbers
calculateFunctionalMetrics(result) ==
  LET n == Len(result.articles)
  IN  [sortingAccuracyH |-> result.sortingAccuracy.accuracy,
       completeness |-> IF n >= ExtractionPassCount THEN 100
                        ELSE (n * 100) \div ExpectedArticles,
       errorRate |-> result.anomalies.summary.criticalIssues,
       consistencyScore |->
         100 - result.anomalies.patterns.consecutiveErrors
                 * ConsistencyPenalty]

\* calculatePerformanceMetrics: min(100, max(0, 100 - loadTime / 50))
calculatePerformanceMetrics(result) ==
  LET loadTimeScoreH == Max(0, 10000 - result.performance.loadTime * 2)
  IN  [loadTime |-> result.performance.loadTime,
       performanceScoreH |-> Min(10000, loadTimeScoreH)]

SeverityWeight(severity) ==
  CASE severity = "high" -> 20
    [] severity = "medium" -> 5
    [] severity = "low" -> 1
    [] OTHER -> 0

RECURSIVE TotalDeductions(_)
TotalDeductions(vulnerabilities) ==
  IF vulnerabilities = <<>> THEN 0
  ELSE SeverityWeight(Head(vulnerabilities).severity)
       + TotalDeductions(Tail(vulnerabilities))

\* calculateSecurityScore: 95 without security data
calculateSecurityScore(securityResults) ==
  IF ~IsObject(securityResults) THEN DefaultSecurityScore
  ELSE LET vulnerabilities == IF HasProp(securityResults, "vulnerabilities")
                              THEN securityResults.vulnerabilities ELSE <<>>
       IN  Max(0, 100 - TotalDeductions(vulnerabilities))

calculateSecurityMetrics(result) ==
  LET securityResults == IF HasProp(result, "security")
                         THEN result.security ELSE NoResult
      vulnerabilities == IF HasProp(securityResults, "vulnerabilities")
                         THEN securityResults.vulnerabilities ELSE <<>>
  IN  [securityScore |-> calculateSecurityScore(securityResults),
       vulnerabilityCount |-> Len(vulnerabilities)]

\* calculateDataQualityMetrics: the three values over the common denominator
\* statistics.total; with no record they are 0/0 (NaN) except completeness
calculateDataQualityMetrics(result) ==
  LET dv == result.dataValidation
  IN  [completeness |-> dv.completenessRatio,
       total |-> dv.statistics.total,
       accuracyNum |-> 100 * (dv.statistics.total - Len(dv.issues)),
       consistencyNum |-> 100 * dv.statistics.complete]

\* calculateApiQualityMetrics: values in hundredths
calculateApiQualityMetrics(result) ==
  LET apiResults == IF HasProp(result, "api") THEN result.api
                    ELSE NoResult
  IN  IF ~IsObject(apiResults)
      THEN [availabilityH |-> 10000, performanceH |-> 10000,
            dataIntegrityH |-> 10000, contractComplianceH |-> 10000]
      ELSE [availabilityH |->
              IF HasProp(apiResults, "availability")
              THEN IF apiResults.availability.overallStatus = "PASS"
                   THEN 10000 ELSE 0
              ELSE 10000,
            performanceH |->
              IF HasProp(apiResults, "performance")
              THEN Max(0, 10000
                            - 5 * apiResults.performance.averageResponseTime)
              ELSE 10000,
            dataIntegrityH |->
              IF HasProp(apiResults, "dataIntegrity")
              THEN 100 * apiResults.dataIntegrity.dataQualityScore
              ELSE 10000,
            contractComplianceH |->
              IF HasProp(apiResults, "contractCompliance")
              THEN 100 * apiResults.contractCompliance.complianceScore
              ELSE 10000]

\* calculateQualityGrade on the score num / den
calculateQualityGrade(num, den) ==
  CASE num >= 95 * den -> "A+"
    [] num >= 90 * den -> "A"
    [] num >= 85 * den -> "B+"
    [] num >= 80 * den -> "B"
    [] num >= 75 * den -> "C+"
    [] num >= 70 * den -> "C"
    [] num >= 65 * den -> "D+"
    [] num >= 60 * den -> "D"
    [] OTHER -> "F"

\* Math.round of num / den, den > 0
MathRound(num, den) == (2 * num + den) \div (2 * den)

\* calculateOverallQualityScore; the weights are in hundredths and the
\* component scores are brought to the denominator 1000 * total. With no
\* record the data quality score, and with it the overall score, is NaN.
calculateOverallQualityScore(metrics) ==
  LET total == metrics.dataQuality.total
      functionalM == 4 * metrics.functional.sortingAccuracyH
                     + 300 * metrics.functional.completeness
                     + 300 * metrics.functional.consistencyScore
      apiQualityM == 3 * metrics.apiQuality.availabilityH
                     + 3 * metrics.apiQuality.performanceH
                     + 2 * metrics.apiQuality.dataIntegrityH
                     + 2 * metrics.apiQuality.contractComplianceH
  IN  IF total = 0
      THEN [isNaN |-> TRUE, value |-> 0, status |-> "FAIL", grade |-> "F",
            components |->
              [functional |-> MathRound(functionalM, 1000),
               performance |->
                 MathRound(metrics.performance.performanceScoreH, 100),
               security |-> metrics.security.securityScore,
               dataQuality |-> 0,
               apiQuality |-> MathRound(apiQualityM, 1000)]]
      ELSE LET den == 100 * 1000 * total
               dataQualityNum ==
                 (50 * metrics.dataQuality.completeness.num * total)
                    \div metrics.dataQuality.completeness.den
                 + 30 * metrics.dataQuality.accuracyNum
                 + 20 * metrics.dataQuality.consistencyNum
               num == 35 * functionalM * total
                      + 20 * metrics.performance.performanceScoreH * 10 * total
                      + 15 * metrics.security.securityScore * 1000 * total
                      + 20 * dataQualityNum * 10
                      + 10 * apiQualityM * total
           IN  [isNaN |-> FALSE,
                value |-> MathRound(num, den),
                status |-> IF num >= overallQualityThreshold * den
                           THEN "PASS" ELSE "FAIL",
                grade |-> calculateQualityGrade(num, den),
                components |->
                  [functional |-> MathRound(functionalM, 1000),
                   performance |->
                     MathRound(metrics.performance.performanceScoreH, 100),
                   security |-> metrics.security.securityScore,
                   dataQuality |-> MathRound(dataQualityNum, 100 * total),
                   apiQuality |-> MathRound(apiQualityM, 1000)]]

\* calculateQualityMetrics: the snapshot of one scored run
calculateQualityMetrics(result, now) ==
  LET metrics == [timestamp |-> now,
                  functional |-> calculateFunctionalMetrics(result),
                  performance |-> calculatePerformanceMetrics(result),
                  security |-> calculateSecurityMetrics(result),
                  dataQuality |-> calculateDataQualityMetrics(result),
                  apiQuality |-> calculateApiQualityMetrics(result)]
  IN  [k \in DOMAIN metrics \cup {"overall"} |->
         IF k = "overall" THEN calculateOverallQualityScore(metrics)
         ELSE metrics[k]]

\* loadMetricsHistory: the entries read, without those not after the cutoff
loadMetricsHistory(file, now) ==
  SelectSeq(file, LAMBDA entry : entry.timestamp > now - retentionDays)

\* ------------------------------------ TestOrchestrator.processTestResults
AccuracyOf(result) ==
  IF HasProp(result, "sortingAccuracy") THEN result.sortingAccuracy.accuracy
  ELSE 0

\* testResults.reduce: the first result of the highest sorting accuracy
RECURSIVE BestResultFrom(_, _, _)
BestResultFrom(results, i, best) ==
  IF i > Len(results) THEN best
  ELSE BestResultFrom(results, i + 1,
                      IF AccuracyOf(results[i]) > AccuracyOf(best)
                      THEN results[i] ELSE best)
BestResult(results) == BestResultFrom(results, 2, results[1])

\* bestResult.api = apiTestResults, unless the API suite returned null
AttachApi(bestResult, apiResults) ==
  IF IsObject(apiResults) THEN SetProp(bestResult, "api", apiResults)
  ELSE bestResult

\* bestResult.security = securityTestResults.testResults, if there is one
AttachSecurity(bestResult, securityResults) ==
  IF HasProp(securityResults, "testResults")
  THEN SetProp(bestResult, "security", securityResults.testResults)
  ELSE bestResult

\* the result recordMetrics is called with
ScoredResult(results, apiResults, securityResults) ==
  AttachSecurity(AttachApi(BestResult(results), apiResults), securityResults)

\* this.testResults after processTestResults wrote api and security onto
\* bestResult, which is one of its elements
IntegratedResults(results, apiResults, securityResults) ==
  LET best == BestResult(results)
      at == CHOOSE i \in 1..Len(results) :
              /\ results[i] = best
              /\ \A j \in 1..(i - 1) : results[j] # best
  IN  [results EXCEPT ![at] = ScoredResult(results, apiResults,
                                           securityResults)]

\* calculateQualityMetrics throws a TypeError on a result of handleTestError
CanScore(result) ==
  /\ HasProp(result, "sortingAccuracy")
  /\ HasProp(result, "anomalies")
  /\ HasProp(result, "performance")
  /\ HasProp(result, "dataValidation")

\* ------------------------------------------------------------ initial states
LoadTimes == {performanceThreshold, performanceThreshold + 1}
Worlds ==
  {[count |-> targetArticleCount, pageSize |-> HNPageSize]}
  \cup {[count |-> SmallTarget, pageSize |-> n] : n \in 1..MaxAnchors}

CollectorIdle ==
  /\ allArticleData = <<>>
  /\ pageNum = 1
  /\ retry = 0
  /\ moreLink = "unread"
  /\ pageArticles = <<>>
  /\ outOfOrder = FALSE
  /\ pagesStarted = <<>>
  /\ pageYields = <<>>
  /\ skippedPage = 0
  /\ stepFailed = FALSE
  /\ sourcePos = 1
  /\ drifted = 0

NothingValidated ==
  /\ sortingAccuracy = NoResult
  /\ anomalies = NoResult
  /\ dataValidation = NoResult
  /\ prevValidation = NoResult
  /\ removed = <<>>
  /\ testResults = NoResult

\* no test run is under way
RunIdle ==
  /\ count = targetArticleCount
  /\ pageSize = HNPageSize
  /\ listingOrder = "newestFirst"
  /\ loadTime = 0
  /\ CollectorIdle
  /\ articles = <<>>
  /\ NothingValidated

\* a test run: runSingleTest has set up its context, executeTestSteps begins
Init ==
  /\ ExtIdle
  /\ pc = "navigate"
  /\ \E w \in Worlds : count = w.count /\ pageSize = w.pageSize
  /\ listingOrder \in {"newestFirst", "oldestFirst"}
  /\ loadTime = 0
  /\ CollectorIdle
  /\ articles = <<>>
  /\ NothingValidated

\* ------------------------------------------------- TestRunner, one attempt
\* handleTestError: the value the attempt returns when a step throws
FailedResults ==
  [failed |-> TRUE, articles |-> <<>>, testStatus |-> "FAIL", totalArticles |-> 0]

\* buildTestResults with generateSummaryReport's testSummary
buildTestResults(arts, accuracy) ==
  [failed |-> FALSE, articles |-> arts,
   testStatus |-> IF accuracy.accuracy >= sortingAccuracyThreshold * 100
                  THEN "PASS" ELSE "FAIL",
   totalArticles |-> Len(arts)]

HandleTestError ==
  /\ pc' = "done"
  /\ testResults' = FailedResults

\* navigateToNewest resolves with the load time
NavigateOk ==
  /\ UNCHANGED extVars
  /\ pc = "navigate"
  /\ loadTime' \in LoadTimes
  /\ pc' = "while"
  /\ UNCHANGED <<worldVars, collectorVars, validatorVars, harnessVars, testResults>>

\* navigateToNewest rejects (or its withTimeout does): handleTestError
NavigateFails ==
  /\ UNCHANGED extVars
  /\ pc = "navigate"
  /\ HandleTestError
  /\ UNCHANGED <<worldVars, collectorVars, validatorVars, harnessVars, loadTime>>

\* the while condition of getArticleElements
LoopCheck ==
  /\ UNCHANGED extVars
  /\ pc = "while"
  /\ IF WhileCondition(Len(allArticleData), count, pageNum)
     THEN /\ pc' = "try"
          /\ retry' = 1
          /\ pagesStarted' = Append(pagesStarted, pageNum)
     ELSE /\ pc' = "return"
          /\ UNCHANGED <<retry, pagesStarted>>
  /\ UNCHANGED <<worldVars, loadTime, allArticleData, pageNum, moreLink,
                 pageArticles, outOfOrder, pageYields, skippedPage,
                 stepFailed, sourcePos, drifted, validatorVars, harnessVars,
                 testResults>>

\* a page attempt whose try block completes: the page lists the entries from
\* `start` on; a later page is loaded anew and may have drifted
PageAttemptOk ==
  /\ UNCHANGED extVars
  /\ pc = "try"
  /\ \E drift \in 0..(MaxDrift - drifted), doms \in PageDoms(pageSize),
        settle \in CompletionOrders(pageSize) :
       LET start == IF pageNum > 1 THEN Max(1, sourcePos - drift) ELSE 1
           anchors == [i \in 1..pageSize |-> [id |-> start + i - 1, dom |-> doms[i]]]
           validArticles == PageValidArticles(listingOrder, anchors, settle)
       IN  /\ allArticleData' = AppendPage(allArticleData, count, validArticles)
           /\ pageYields' = Append(pageYields, Len(validArticles))
           /\ pageArticles' = anchors
           /\ outOfOrder' = (settle # Identity(pageSize))
           /\ sourcePos' = start + pageSize
           /\ drifted' = IF pageNum > 1 THEN drifted + drift ELSE drifted
  /\ pc' = "more"
  /\ UNCHANGED <<worldVars, loadTime, pageNum, retry, moreLink, pagesStarted,
                 skippedPage, stepFailed, validatorVars, harnessVars, testResults>>

PageAttemptFails_unbounded ==
  /\ UNCHANGED extVars
  /\ pc = "try"
  /\ stepFailed' = TRUE
  /\ retry' = retry + 1
  /\ UNCHANGED <<pc, skippedPage>>
  /\ UNCHANGED <<worldVars, loadTime, allArticleData, pageNum, moreLink,
                 pageArticles, outOfOrder, pagesStarted, pageYields, sourcePos,
                 drifted, validatorVars, harnessVars, testResults>>

\* a page attempt that throws (goto, waitForArticles or $$): the catch block
PageAttemptFails ==
  /\ UNCHANGED extVars
  /\ pc = "try"
  /\ stepFailed' = TRUE
  /\ IF retry < maxRetries
     THEN /\ retry' = retry + 1
          /\ UNCHANGED <<pc, skippedPage>>
     ELSE /\ skippedPage' = pageNum
          /\ pc' = "return"
          /\ UNCHANGED retry
  /\ UNCHANGED <<worldVars, loadTime, allArticleData, pageNum, moreLink,
                 pageArticles, outOfOrder, pagesStarted, pageYields, sourcePos,
                 drifted, validatorVars, harnessVars, testResults>>

\* lines 199-216: the More link
MoreLinkStep ==
  /\ UNCHANGED extVars
  /\ pc = "more"
  /\ pageArticles' = <<>>
  /\ outOfOrder' = FALSE
  /\ IF Len(allArticleData) < count
     THEN \E link \in {"none", "nohref", "href"} :
            /\ moreLink' = link
            /\ IF link = "href"
               THEN pageNum' = pageNum + 1 /\ pc' = "while"
               ELSE pageNum' = pageNum /\ pc' = "return"
     ELSE /\ pc' = "while"
          /\ UNCHANGED <<moreLink, pageNum>>
  /\ UNCHANGED <<worldVars, loadTime, allArticleData, retry, pagesStarted,
                 pageYields, skippedPage, stepFailed, sourcePos, drifted,
                 validatorVars, harnessVars, testResults>>

\* reading the More link throws: getArticleElements rejects, handleTestError
MoreLinkThrows ==
  /\ UNCHANGED extVars
  /\ pc = "more"
  /\ Len(allArticleData) < count
  /\ stepFailed' = TRUE
  /\ HandleTestError
  /\ UNCHANGED <<worldVars, loadTime, allArticleData, pageNum, retry, moreLink,
                 pageArticles, outOfOrder, pagesStarted, pageYields, skippedPage,
                 sourcePos, drifted, validatorVars, harnessVars>>

\* return allArticleData.slice(0, count), received by executeTestSteps
ReturnArticles ==
  /\ UNCHANGED extVars
  /\ pc = "return"
  /\ articles' = Slice0(allArticleData, count)
  /\ pc' = "validate"
  /\ UNCHANGED <<worldVars, loadTime, collectorVars, sortingAccuracy, anomalies,
                 dataValidation, harnessVars, testResults>>

\* lines 253-259 of executeTestSteps
Validate ==
  /\ UNCHANGED extVars
  /\ pc = "validate"
  /\ sortingAccuracy' = calculateSortingAccuracy(articles)
  /\ anomalies' = detectSortingAnomalies(articles)
  /\ dataValidation' = validateArticleData(articles)
  /\ pc' = "perf"
  /\ UNCHANGED <<worldVars, loadTime, collectorVars, articles, harnessVars,
                 testResults>>

GetPerformanceMetricsOk ==
  /\ UNCHANGED extVars
  /\ pc = "perf"
  /\ pc' = "assert"
  /\ UNCHANGED <<worldVars, loadTime, collectorVars, validatorVars, harnessVars,
                 testResults>>

GetPerformanceMetricsFails ==
  /\ UNCHANGED extVars
  /\ pc = "perf"
  /\ HandleTestError
  /\ UNCHANGED <<worldVars, loadTime, collectorVars, validatorVars, harnessVars>>

\* runCustomAssertions, then buildTestResults
AssertionThrows ==
  \/ assertSortingAccuracyThrows(sortingAccuracy.accuracy, sortingAccuracyThreshold)
  \/ assertNoMissingTimestampsThrows(articles)
  \/ assertPerformanceThrows(loadTime, performanceThreshold)
  \/ assertNoConsecutiveSortingErrorsThrows(anomalies, maxConsecutive)

RunCustomAssertions ==
  /\ UNCHANGED extVars
  /\ pc = "assert"
  /\ IF AssertionThrows
     THEN HandleTestError
     ELSE /\ testResults' = buildTestResults(articles, sortingAccuracy)
          /\ pc' = "done"
  /\ UNCHANGED <<worldVars, loadTime, collectorVars, validatorVars, harnessVars>>

Next ==
  \/ NavigateOk
  \/ NavigateFails
  \/ LoopCheck
  \/ PageAttemptOk
  \/ PageAttemptFails
  \/ MoreLinkStep
  \/ MoreLinkThrows
  \/ ReturnArticles
  \/ Validate
  \/ GetPerformanceMetricsOk
  \/ GetPerformanceMetricsFails
  \/ RunCustomAssertions

Spec == Init /\ [][Next]_vars

\* getArticleElements on its own, under the event loop's scheduling: every
\* await of the collector is a call with a timeout or a DOM read, so a step
\* that is enabled is eventually taken. The target is SmallTarget and the
\* source lists newest first.
CollectorInit ==
  Init /\ count = SmallTarget /\ listingOrder = "newestFirst"

CollectorNext ==
  \/ NavigateOk
  \/ LoopCheck
  \/ PageAttemptOk
  \/ PageAttemptFails
  \/ MoreLinkStep
  \/ MoreLinkThrows
  \/ ReturnArticles

CollectorSpec ==
  CollectorInit /\ [][CollectorNext]_vars /\ WF_vars(CollectorNext)

\* ------------------------------------------------- the validators on their own
\* The validators are pure functions of a record sequence; ValidationSpec
\* gives them every sequence of the input sets below, then removes one present
\* field from one record and validates again.
MkArticle(title, author, score, timestamp) ==
  [id |-> 0, title |-> title, author |-> author, score |-> score,
   timestamp |-> timestamp, extractionAttempt |-> 1]

\* timestamps: a cluster of neighbouring ticks and two ticks about one
\* hour later, on either side of the large-jump boundary
FarTicks == {LargeJumpMinutes * TicksPerMinute + MaxTick - 1,
             LargeJumpMinutes * TicksPerMinute + MaxTick}
Ticks == (1..MaxTick) \cup FarTicks
TimeRecords == {MkArticle("A story title", "pg", 0, t) : t \in Ticks \cup {NullTs}}
FieldRecords ==
  {MkArticle(title, author, score, t) :
     title \in {NullStr, " ", "No title", "A story title"},
     author \in {NullStr, "pg"}, score \in {NullScore, 0}, t \in {NullTs, 1}}

SeqsUpTo(S, n) == UNION {[1..k -> S] : k \in 0..n}

\* five records whose gaps (current minus next) are -10, 5, 70 and 5 minutes
GapSequence(base) ==
  LET m == TicksPerMinute
      t5 == base
      t4 == t5 + 5 * m
      t3 == t4 + 70 * m
      t2 == t3 + 5 * m
      t1 == t2 - 10 * m
  IN  [i \in 1..5 |-> MkArticle("A story title", "pg", 0,
                                 CASE i = 1 -> t1 [] i = 2 -> t2 [] i = 3 -> t3
                                   [] i = 4 -> t4 [] OTHER -> t5)]
GapSequences == {GapSequence(base) : base \in 1..MaxTick}

ValidatorInputs ==
  SeqsUpTo(TimeRecords, MaxLen) \cup SeqsUpTo(FieldRecords, MaxFieldLen)
    \cup GapSequences

ValidationInit ==
  /\ ExtIdle
  /\ pc = "input"
  /\ articles \in ValidatorInputs
  /\ count = targetArticleCount
  /\ pageSize = HNPageSize
  /\ listingOrder = "newestFirst"
  /\ loadTime = 0
  /\ CollectorIdle
  /\ NothingValidated

ApplyValidators ==
  /\ UNCHANGED extVars
  /\ pc = "input"
  /\ sortingAccuracy' = calculateSortingAccuracy(articles)
  /\ anomalies' = detectSortingAnomalies(articles)
  /\ dataValidation' = validateArticleData(articles)
  /\ pc' = "validated"
  /\ UNCHANGED <<worldVars, loadTime, collectorVars, articles, harnessVars,
                 testResults>>

RequiredFields == {"title", "timestamp", "author", "score"}

\* the field is present as validateArticleData understands presence
FieldPresent(article, field) ==
  CASE field = "title" -> Truthy(article.title) /\ Trim(article.title) # ""
    [] field = "timestamp" -> HasTs(article)
    [] field = "author" -> Truthy(article.author)
    [] OTHER -> article.score # NullScore

WithoutField(article, field) ==
  CASE field = "title" -> [article EXCEPT !.title = NullStr]
    [] field = "timestamp" -> [article EXCEPT !.timestamp = NullTs]
    [] field = "author" -> [article EXCEPT !.author = NullStr]
    [] OTHER -> [article EXCEPT !.score = NullScore]

RemoveField ==
  /\ UNCHANGED extVars
  /\ pc = "validated"
  /\ \E i \in 1..Len(articles), field \in RequiredFields :
       /\ FieldPresent(articles[i], field)
       /\ articles' = [articles EXCEPT ![i] = WithoutField(@, field)]
       /\ removed' = <<i - 1, field>>
  /\ prevValidation' = dataValidation
  /\ sortingAccuracy' = calculateSortingAccuracy(articles')
  /\ anomalies' = detectSortingAnomalies(articles')
  /\ dataValidation' = validateArticleData(articles')
  /\ pc' = "removed"
  /\ UNCHANGED <<worldVars, loadTime, collectorVars, testResults>>

ValidationNext ==
  \/ ApplyValidators
  \/ RemoveField

ValidationSpec == ValidationInit /\ [][ValidationNext]_vars

\* --------------------------------------------- the time parser on its own
\* ParserSpec hands parseHackerNewsTimestamp the texts "<N><sep><unit><s><end>"
\* written from the parts below and a few texts of other shapes, then lets
\* the timestamp loop of extractArticleData decide on the result.
NumberChars(num) ==
  CASE num = "none" -> <<>>
    [] num = "0" -> <<"0">>
    [] num = "3" -> <<"3">>
    [] num = "15" -> <<"1", "5">>
    [] num = "1.5" -> <<"1", ".", "5">>
    [] OTHER -> <<"-", "2">>
EndChars(end) ==
  CASE end = "ago" -> <<" ", "a", "g", "o">>
    [] end = "fromNow" -> <<" ", "f", "r", "o", "m", " ", "n", "o", "w">>
    [] OTHER -> <<>>
OtherChars(text) ==
  CASE text = "empty" -> <<>>
    [] text = "blank" -> <<" ", " ">>
    [] text = "just now" -> <<"J", "u", "s", "t", " ", "n", "o", "w">>
    [] text = "now" -> <<" ", "n", "o", "w", " ">>
    [] OTHER -> <<"y", "e", "s", "t", "e", "r", "d", "a", "y">>

RelativePhrases ==
  [kind : {"relative"},
   num : {"none", "0", "3", "15", "1.5", "-2"},
   sep : {"", " "},
   unit : {"minute", "hour", "day", "month", "year", "week", "Hour"},
   plural : BOOLEAN,
   end : {"ago", "fromNow", "none"}]
OtherPhrases ==
  [kind : {"other"}, text : {"empty", "blank", "just now", "now", "yesterday"}]
Phrases == RelativePhrases \cup OtherPhrases

PhraseChars(p) ==
  IF p.kind = "other" THEN OtherChars(p.text)
  ELSE NumberChars(p.num) \o (IF p.sep = " " THEN <<" ">> ELSE <<>>)
       \o UnitChars(p.unit) \o (IF p.plural THEN <<"s">> ELSE <<>>)
       \o EndChars(p.end)

ParserInit ==
  /\ pc = "parse"
  /\ phrase \in Phrases
  /\ timestampText = PhraseChars(phrase)
  /\ parsed = NoResult
  /\ RunIdle
  /\ ExtractionIdle
  /\ MetricsIdle
  /\ RunnerIdle
  /\ OrchestratorIdle

\* timestamp = this.parseHackerNewsTimestamp(timestampText)
ParseTimestamp ==
  /\ pc = "parse"
  /\ parsed' = parseHackerNewsTimestamp(timestampText, NowTick)
  /\ pc' = "parsed"
  /\ UNCHANGED <<besideParser, timestampText, phrase>>

\* if (timestamp) break, and after the selectors: if (!timestamp) throw
TimestampFound ==
  /\ pc = "parsed"
  /\ parsed # NullTs
  /\ pc' = "timestampFound"
  /\ UNCHANGED <<besideParser, parserVars>>

TimestampUnavailable ==
  /\ pc = "parsed"
  /\ parsed = NullTs
  /\ pc' = "timestampUnavailable"
  /\ UNCHANGED <<besideParser, parserVars>>

ParserNext ==
  \/ ParseTimestamp
  \/ TimestampFound
  \/ TimestampUnavailable

ParserSpec == ParserInit /\ [][ParserNext]_vars

\* ------------------------------------------ extractArticleData on its own
\* ExtractionSpec runs extractArticleData on one article row, for every
\* outcome of the five title strategies and of the timestamp read of each
\* attempt, then hands the record to the page filter and the validators.
ResolvableText == <<"3", " ", "m", "i", "n", "u", "t", "e", "s", " ", "a", "g", "o">>
AttemptTexts == [1..maxRetries -> {<<>>, ResolvableText}]

ExtractionInit ==
  /\ pc = "extract"
  /\ browserName \in {"chromium", "firefox"}
  /\ titleStrategies \in [1..StrategyCount -> StrategyKinds]
  /\ timestampTexts \in AttemptTexts
  /\ extracted = NoResult
  /\ RunIdle
  /\ ParserIdle
  /\ MetricsIdle
  /\ RunnerIdle
  /\ OrchestratorIdle

ExtractArticle ==
  /\ pc = "extract"
  /\ extracted' = ExtractWithTitle(titleStrategies, browserName,
                                   timestampTexts, 1)
  /\ pc' = "extracted"
  /\ UNCHANGED <<runVars, besideExtraction, browserName, titleStrategies,
                 timestampTexts>>

\* the record passes getArticleElements' filter and reaches the validators
CollectRecord ==
  /\ pc = "extracted"
  /\ IsValidArticle(extracted)
  /\ articles' = <<extracted>>
  /\ sortingAccuracy' = calculateSortingAccuracy(articles')
  /\ anomalies' = detectSortingAnomalies(articles')
  /\ dataValidation' = validateArticleData(articles')
  /\ pc' = "collected"
  /\ UNCHANGED <<worldVars, loadTime, collectorVars, harnessVars, testResults,
                 extVars>>

\* a null record is filtered out
DropRecord ==
  /\ pc = "extracted"
  /\ ~IsValidArticle(extracted)
  /\ pc' = "dropped"
  /\ UNCHANGED <<runVars, extVars>>

ExtractionNext ==
  \/ ExtractArticle
  \/ CollectRecord
  \/ DropRecord

ExtractionSpec == ExtractionInit /\ [][ExtractionNext]_vars

\* ----------------------------------------------- scoring and the history
\* MetricsSpec follows the quality metrics tracker through one suite run:
\* initialize, then processTestResults with recordMetrics, over a history
\* file left by earlier runs.
MaxHistory == 2
Today == 100
EntryDays == {Today - retentionDays - 1, Today - retentionDays,
              Today - retentionDays + 1, Today - 1}

\* what executeTestSteps returns to the orchestrator for `arts`
ScoredRun(arts, ms) ==
  [failed |-> FALSE,
   articles |-> arts,
   sortingAccuracy |-> calculateSortingAccuracy(arts),
   anomalies |-> detectSortingAnomalies(arts),
   dataValidation |-> validateArticleData(arts),
   performance |-> [loadTime |-> ms]]

\* n complete records, newest first; `inverted` swaps the last two
RunArticles(n, inverted) ==
  [i \in 1..n |->
     MkArticle("A story title", "pg", 0,
               TsOf("newestFirst",
                    IF inverted /\ i = n - 1 THEN n
                    ELSE IF inverted /\ i = n THEN n - 1 ELSE i))]

\* n records, newest first, that have neither an author nor a score
BareArticles(n) ==
  [i \in 1..n |->
     MkArticle("A story title", NullStr, NullScore, TsOf("newestFirst", i))]

RunSizes == {0, SmallTarget, targetArticleCount}
LoadTimeSamples == {1000, 2000, performanceThreshold}
SuccessfulRuns ==
  {ScoredRun(RunArticles(n, inverted), ms) :
     n \in RunSizes, inverted \in BOOLEAN, ms \in LoadTimeSamples}
  \cup {ScoredRun(BareArticles(SmallTarget), ms) : ms \in LoadTimeSamples}
TestResultSamples == SuccessfulRuns \cup {FailedResults}

\* the snapshot an earlier run recorded on day t
OldSnapshot(t) ==
  calculateQualityMetrics(ScoredRun(RunArticles(SmallTarget, FALSE), 1000), t)
NoFile == [exists |-> FALSE, entries |-> <<>>]
FileOf(entries) == [exists |-> TRUE, entries |-> entries]
HistoryFiles ==
  {NoFile}
  \cup {FileOf([i \in 1..Len(days) |-> OldSnapshot(days[i])]) :
          days \in {d \in SeqsUpTo(EntryDays, MaxHistory) :
                      \A i \in 1..(Len(d) - 1) : d[i] <= d[i + 1]}}

Vulnerability(level) == [severity |-> level, type |-> "finding"]
VulnerabilityLists ==
  {<<>>, <<Vulnerability("high")>>,
   <<Vulnerability("medium"), Vulnerability("low")>>}
\* what SecurityTester.runSecurityTests returns: its testResults object
SecuritySuiteResult(found) ==
  [xssVulnerabilities |-> found,
   vulnerabilities |-> found,
   summary |-> [totalVulnerabilities |-> Len(found)]]
SecurityOutcomes ==
  {NullValue} \cup {SecuritySuiteResult(found) : found \in VulnerabilityLists}

\* what HNApiTester.runAllTests returns
ApiSuiteResult(available, quality) ==
  [testResults |->
     [apiAvailability |->
        [overallStatus |-> IF available THEN "PASS" ELSE "FAIL"],
      dataIntegrity |-> [dataQualityScore |-> quality]],
   summary |-> [overallStatus |->
                  IF available /\ quality >= 90 THEN "PASS" ELSE "FAIL"]]
ApiOutcomes ==
  {NullValue, ApiSuiteResult(TRUE, 100), ApiSuiteResult(FALSE, 100),
   ApiSuiteResult(TRUE, 60)}

MetricsInit ==
  /\ pc = "initialize"
  /\ historyFile \in HistoryFiles
  /\ metricsHistory = <<>>
  /\ \E r \in TestResultSamples :
       browserResults \in {<<r>>, <<FailedResults, r>>}
  /\ apiTestResults \in ApiOutcomes
  /\ securityTestResults \in SecurityOutcomes
  /\ currentMetrics = NoResult
  /\ RunIdle
  /\ ParserIdle
  /\ ExtractionIdle
  /\ RunnerIdle
  /\ OrchestratorIdle

\* initialize: loadMetricsHistory reads the file, if there is one, and prunes
InitializeLoads ==
  /\ pc = "initialize"
  /\ metricsHistory' = IF ~historyFile.exists THEN <<>>
                       ELSE loadMetricsHistory(historyFile.entries, Today)
  /\ pc' = "process"
  /\ UNCHANGED <<besideMetrics, historyFile, browserResults, apiTestResults,
                 securityTestResults, currentMetrics>>

\* initialize: readJson rejects; the catch starts from an empty history
InitializeLoadFails ==
  /\ pc = "initialize"
  /\ historyFile.exists
  /\ metricsHistory' = <<>>
  /\ pc' = "process"
  /\ UNCHANGED <<besideMetrics, historyFile, browserResults, apiTestResults,
                 securityTestResults, currentMetrics>>

\* processTestResults with recordMetrics resolving: attach, score, push, save
ProcessTestResults ==
  /\ pc = "process"
  /\ LET scored == ScoredResult(browserResults, apiTestResults,
                                securityTestResults)
     IN  /\ CanScore(scored)
         /\ currentMetrics' = calculateQualityMetrics(scored, Today)
         /\ metricsHistory' = Append(metricsHistory, currentMetrics')
         /\ historyFile' = FileOf(metricsHistory')
  /\ browserResults' = IntegratedResults(browserResults, apiTestResults,
                                        securityTestResults)
  /\ pc' = "recorded"
  /\ UNCHANGED <<besideMetrics, apiTestResults, securityTestResults>>

\* recordMetrics rejects in saveMetricsHistory: the snapshot was pushed
SaveMetricsHistoryFails ==
  /\ pc = "process"
  /\ LET scored == ScoredResult(browserResults, apiTestResults,
                                securityTestResults)
     IN  /\ CanScore(scored)
         /\ currentMetrics' = calculateQualityMetrics(scored, Today)
         /\ metricsHistory' = Append(metricsHistory, currentMetrics')
  /\ browserResults' = IntegratedResults(browserResults, apiTestResults,
                                        securityTestResults)
  /\ pc' = "notRecorded"
  /\ UNCHANGED <<besideMetrics, historyFile, apiTestResults,
                 securityTestResults>>

\* recordMetrics throws in calculateQualityMetrics: nothing is recorded
CalculateQualityMetricsThrows ==
  /\ pc = "process"
  /\ ~CanScore(ScoredResult(browserResults, apiTestResults,
                            securityTestResults))
  /\ browserResults' = IntegratedResults(browserResults, apiTestResults,
                                        securityTestResults)
  /\ pc' = "notRecorded"
  /\ UNCHANGED <<besideMetrics, historyFile, metricsHistory, apiTestResults,
                 securityTestResults, currentMetrics>>

MetricsNext ==
  \/ InitializeLoads
  \/ InitializeLoadFails
  \/ ProcessTestResults
  \/ SaveMetricsHistoryFails
  \/ CalculateQualityMetricsThrows

MetricsSpec == MetricsInit /\ [][MetricsNext]_vars

\* ---------------------------------- runSingleTest: retry, timeout, navigation
\* RunnerSpec follows one runSingleTest call: the retry helper around set-up,
\* test steps and clean-up, and inside the steps withTimeout around
\* navigateToNewest with its own attempt loop. Time is counted in ms from the
\* moment withTimeout starts the navigation step.
retryMaxAttempts == 3
retryBackoffMs == 1000
navigationMaxRetries == 3
navigationBackoffMs == 1000
navigationTimeout == 30000
FallbackSelectors == 3
QuickMs == 1000

\* HackerNewsPage.getBrowserTimeout
getBrowserTimeout(browser, operation) ==
  CASE browser = "firefox" /\ operation = "navigation" -> 35000
    [] browser = "firefox" -> 20000
    [] operation = "navigation" -> 30000
    [] OTHER -> 15000

\* the wait after failed attempt k: base * k
BackoffMs_constant(base, k) == base

BackoffMs(base, k) == base * k

\* How one pass of navigateToNewest's try block can fail, and after how long:
\* page.goto rejects at once, page.goto runs into its timeout, or
\* waitForArticles runs every selector into the element timeout.
NavigationFailures == {"gotoError", "gotoTimeout", "selectorsTimeout"}
FailureAfterMs(browser, failure) ==
  CASE failure = "gotoError" -> QuickMs
    [] failure = "gotoTimeout" -> getBrowserTimeout(browser, "navigation")
    [] OTHER -> QuickMs + (1 + FallbackSelectors)
                            * getBrowserTimeout(browser, "element")

\* the message of an error built around the last failure
ErrorCarrying(by, cause) == [by |-> by, cause |-> cause]

\* handleTestError's result for `error`
FailedWith(error) == [failed |-> TRUE, error |-> error]

\* the call a navigateToNewest of run `run` awaits in its attempt `attempt`
Awaiting(op, selector, attempt, run) ==
  [op |-> op, selector |-> selector, attempt |-> attempt, run |-> run,
   closed |-> FALSE]

\* waitForArticles: the selector whose wait is pending when the timer fires,
\* the waits before it having run into the element timeout
PendingSelector(browser, start) ==
  LET waits == {k \in 1..(1 + FallbackSelectors) :
                  start + QuickMs + k * getBrowserTimeout(browser, "element")
                    >= navigationTimeout}
  IN  CHOOSE k \in waits : \A j \in waits : k <= j

\* cleanupTestContext of run `run` has closed the browser
ClosedUnder(p, run) == IF p.run = run THEN [p EXCEPT !.closed = TRUE] ELSE p

\* navigateToNewest's catch block in attempt p.attempt
AfterCaught(p) ==
  IF p.attempt < navigationMaxRetries
  THEN [p EXCEPT !.op = "waitForTimeout", !.selector = 0]
  ELSE [p EXCEPT !.op = "ended", !.selector = 0]

\* what navigateToNewest awaits next once the call p has settled; "domCheck"
\* is Firefox's wait for the title rows, whose failure is swallowed
AfterSettled(p, resolves, browser) ==
  CASE p.op = "goto" ->
         IF resolves THEN [p EXCEPT !.op = "waitForSelector", !.selector = 1]
         ELSE AfterCaught(p)
    [] p.op = "waitForSelector" ->
         IF resolves
         THEN IF browser = "firefox"
              THEN [p EXCEPT !.op = "domCheck", !.selector = 0]
              ELSE [p EXCEPT !.op = "ended", !.selector = 0]
         ELSE IF p.selector < 1 + FallbackSelectors
              THEN [p EXCEPT !.selector = p.selector + 1]
              ELSE AfterCaught(p)
    [] p.op = "waitForTimeout" ->
         IF resolves
         THEN [p EXCEPT !.op = "goto", !.attempt = p.attempt + 1]
         ELSE [p EXCEPT !.op = "ended"]
    [] OTHER -> [p EXCEPT !.op = "ended", !.selector = 0]

RunnerInit ==
  /\ pc = "retry"
  /\ browserName \in {"chromium", "firefox"}
  /\ titleStrategies = <<>>
  /\ timestampTexts = <<>>
  /\ extracted = NoResult
  /\ RunnerIdle
  /\ RunIdle
  /\ ParserIdle
  /\ MetricsIdle
  /\ OrchestratorIdle

\* the catch of the retry helper for the error `cause` of attempt retryAttempt
RetryCatch(cause) ==
  /\ lastError' = cause
  /\ reported' = NoResult
  /\ IF retryAttempt = retryMaxAttempts
     THEN /\ thrown' = cause
          /\ pc' = "threw"
          /\ UNCHANGED <<retryAttempt, retryWaits>>
     ELSE /\ retryWaits' = Append(retryWaits,
                                  BackoffMs(retryBackoffMs, retryAttempt))
          /\ retryAttempt' = retryAttempt + 1
          /\ pc' = "retry"
          /\ UNCHANGED thrown

\* the helper calls the operation; setupTestContext resolves and
\* executeTestSteps starts withTimeout(navigateToNewest)
SetupOk ==
  /\ pc = "retry"
  /\ fnCalls' = fnCalls + 1
  /\ navAttempt' = 1
  /\ gotoCalls' = 0
  /\ navWaits' = <<>>
  /\ elapsed' = 0
  /\ openBrowsers' = openBrowsers + 1
  /\ pc' = "goto"
  /\ UNCHANGED <<besideRunner, retryAttempt, retryWaits, lastError, reported,
                 thrown, pending, lateCalls>>

\* the helper calls the operation; setupTestContext rejects: launchBrowser
\* rejects, or it resolves and browser.newContext or context.newPage rejects
SetupFails ==
  /\ pc = "retry"
  /\ fnCalls' = fnCalls + 1
  /\ \E launched \in BOOLEAN :
       openBrowsers' = IF launched THEN openBrowsers + 1 ELSE openBrowsers
  /\ RetryCatch("setup failed")
  /\ UNCHANGED <<besideRunner, navigationVars, pending, lateCalls>>

\* page.goto and waitForArticles resolve: navigateToNewest returns
NavigationAttemptOk ==
  /\ pc = "goto"
  /\ elapsed + QuickMs <= navigationTimeout
  /\ gotoCalls' = gotoCalls + 1
  /\ elapsed' = elapsed + QuickMs
  /\ pc' = "steps"
  /\ UNCHANGED <<besideRunner, retryVars, navAttempt, navWaits, contextVars>>

\* the try block of navigateToNewest throws before withTimeout's timer fires:
\* back off and go round, or after the last attempt throw to executeTestSteps,
\* whose caller turns the error into a failed result
NavigationAttemptFails ==
  /\ pc = "goto"
  /\ \E failure \in NavigationFailures :
       /\ elapsed + FailureAfterMs(browserName, failure) <= navigationTimeout
       /\ elapsed' = elapsed + FailureAfterMs(browserName, failure)
       /\ lastError' = failure
       /\ gotoCalls' = gotoCalls + 1
       /\ IF navAttempt < navigationMaxRetries
          THEN /\ pc' = "backoff"
               /\ UNCHANGED reported
          ELSE /\ reported' = FailedWith(ErrorCarrying("navigateToNewest",
                                                       failure))
               /\ pc' = "cleanup"
  /\ UNCHANGED <<besideRunner, retryAttempt, fnCalls, retryWaits, thrown,
                 navAttempt, navWaits, contextVars>>

\* page.waitForTimeout(1000 * attempt), then the next attempt
NavigationBackoff ==
  /\ pc = "backoff"
  /\ elapsed + BackoffMs(navigationBackoffMs, navAttempt) <= navigationTimeout
  /\ navWaits' = Append(navWaits, BackoffMs(navigationBackoffMs, navAttempt))
  /\ elapsed' = elapsed + BackoffMs(navigationBackoffMs, navAttempt)
  /\ navAttempt' = navAttempt + 1
  /\ pc' = "goto"
  /\ UNCHANGED <<besideRunner, retryVars, gotoCalls, contextVars>>

\* withTimeout's timer fires while page.goto, waitForArticles or the back-off
\* wait is still pending: executeTestSteps throws "Navigation timeout" and
\* runSingleTest's catch returns handleTestError's result to the helper
WithTimeoutFires ==
  /\ \/ /\ pc = "goto"
        /\ \E failure \in NavigationFailures :
             /\ elapsed + FailureAfterMs(browserName, failure)
                  >= navigationTimeout
             /\ pending' = Awaiting(IF failure = "selectorsTimeout"
                                    THEN "waitForSelector" ELSE "goto",
                                    IF failure = "selectorsTimeout"
                                    THEN PendingSelector(browserName, elapsed)
                                    ELSE 0,
                                    navAttempt, retryAttempt)
     \/ /\ pc = "backoff"
        /\ elapsed + BackoffMs(navigationBackoffMs, navAttempt)
             >= navigationTimeout
        /\ pending' = Awaiting("waitForTimeout", 0, navAttempt, retryAttempt)
  /\ elapsed' = navigationTimeout
  /\ lastError' = "Navigation timeout"
  /\ reported' = FailedWith(ErrorCarrying("withTimeout", "Navigation timeout"))
  /\ pc' = "cleanup"
  /\ UNCHANGED <<besideRunner, retryAttempt, fnCalls, retryWaits, thrown,
                 navAttempt, gotoCalls, navWaits, openBrowsers, lateCalls>>

\* the steps after the navigation resolve, or one throws and is caught
RemainingStepsOk ==
  /\ pc = "steps"
  /\ reported' = [failed |-> FALSE]
  /\ pc' = "cleanup"
  /\ UNCHANGED <<besideRunner, retryAttempt, fnCalls, retryWaits, lastError,
                 thrown, navigationVars, contextVars>>

RemainingStepsFail ==
  /\ pc = "steps"
  /\ lastError' = "step failed"
  /\ reported' = FailedWith(ErrorCarrying("executeTestSteps", "step failed"))
  /\ pc' = "cleanup"
  /\ UNCHANGED <<besideRunner, retryAttempt, fnCalls, retryWaits, thrown,
                 navigationVars, contextVars>>

\* finally: cleanupTestContext resolves and the helper returns the result
CleanupOk ==
  /\ pc = "cleanup"
  /\ openBrowsers' = openBrowsers - 1
  /\ pending' = ClosedUnder(pending, retryAttempt)
  /\ pc' = "returned"
  /\ UNCHANGED <<besideRunner, retryVars, navigationVars, lateCalls>>

\* finally: browser.close() rejects, which rejects the operation; the
\* browser may or may not have gone
CleanupFails ==
  /\ pc = "cleanup"
  /\ \E closed \in BOOLEAN :
       IF closed
       THEN /\ openBrowsers' = openBrowsers - 1
            /\ pending' = ClosedUnder(pending, retryAttempt)
       ELSE UNCHANGED <<openBrowsers, pending>>
  /\ RetryCatch("cleanup failed")
  /\ UNCHANGED <<besideRunner, fnCalls, navigationVars, lateCalls>>

\* The navigateToNewest that withTimeout gave up on is still running: the
\* call it awaits settles and it goes on as its code says. A call on the
\* page of a closed browser can only reject. The calls are followed up to
\* the MaxLateCalls-th.
LateCallSettles ==
  /\ pending.op \notin {"none", "ended"}
  /\ Len(lateCalls) < MaxLateCalls
  /\ \E resolves \in {r \in BOOLEAN : pending.closed => ~r} :
       LET next == AfterSettled(pending, resolves, browserName)
       IN  /\ pending' = next
           /\ lateCalls' = IF next.op = "ended" THEN lateCalls
                           ELSE Append(lateCalls,
                                       [op |-> next.op,
                                        closed |-> next.closed])
  /\ UNCHANGED <<pc, besideRunner, retryVars, navigationVars, openBrowsers>>

RunnerNext ==
  \/ SetupOk
  \/ SetupFails
  \/ NavigationAttemptOk
  \/ NavigationAttemptFails
  \/ NavigationBackoff
  \/ WithTimeoutFires
  \/ RemainingStepsOk
  \/ RemainingStepsFail
  \/ CleanupOk
  \/ CleanupFails
  \/ LateCallSettles

RunnerSpec == RunnerInit /\ [][RunnerNext]_vars

\* ------------------------------------ TestOrchestrator.runComprehensiveValidation
\* OrchestratorSpec follows one runComprehensiveValidation call from the
\* tracker's initialize to the returned summary or the rethrown error. Each
\* runSingleTest is taken at the grain of the retry helper: an attempt either
\* rejects (set-up or clean-up) or returns a result.
configuredBrowsers == <<"chromium", "firefox">>
viewports == <<"Desktop", "Tablet", "Mobile">>

\* getAvailableBrowsers: the configured browsers that are installed, in order
BrowserLists == {<<>>, <<"chromium">>, <<"firefox">>, configuredBrowsers}

\* what an attempt of runSingleTest can return for one combination
SortedRun == ScoredRun(RunArticles(SmallTarget, FALSE), 1000)
InvertedRun == ScoredRun(RunArticles(SmallTarget, TRUE), 2000)
AttemptResults == {SortedRun, InvertedRun, FailedResults}

\* buildTestResults and handleTestError both name the combination
ResultFor(result, browser, viewport) ==
  SetProp(SetProp(result, "browser", browser), "viewport", viewport)

\* aggregateResults throws when no result is a successful one
NoSuccessfulResults_anyFailed(results) ==
  \E i \in 1..Len(results) : results[i].failed

NoSuccessfulResults(results) ==
  \A i \in 1..Len(results) : results[i].failed

\* displayFinalSummary's return value
displayFinalSummary(results) ==
  LET successfulTests ==
        Len(SelectSeq(results, LAMBDA r : ~r.failed))
      failedTests == Len(results) - successfulTests
  IN  [passed |-> failedTests = 0 /\ successfulTests > 0]

OrchestratorInit ==
  /\ pc = "initialize"
  /\ historyFile \in {NoFile, FileOf(<<OldSnapshot(Today - 1)>>)}
  /\ metricsHistory = <<>>
  /\ browserResults = <<>>
  /\ apiTestResults = NoResult
  /\ securityTestResults = NoResult
  /\ currentMetrics = NoResult
  /\ OrchestratorIdle
  /\ RunnerIdle
  /\ RunIdle
  /\ ParserIdle
  /\ ExtractionIdle

\* qualityMetricsTracker.initialize(): load the history or start empty
InitializeTracker ==
  /\ pc = "initialize"
  /\ \E readable \in BOOLEAN :
       metricsHistory' = IF historyFile.exists /\ readable
                         THEN loadMetricsHistory(historyFile.entries, Today)
                         ELSE <<>>
  /\ pc' = "browsers"
  /\ UNCHANGED <<besideOrchestrator, retryVars, orchestratorVars, historyFile,
                 browserResults, apiTestResults, securityTestResults,
                 currentMetrics>>

\* getAvailableBrowsers: throws when no configured browser is installed
GetAvailableBrowsers ==
  /\ pc = "browsers"
  /\ \E installed \in BrowserLists :
       /\ availableBrowsers' = installed
       /\ IF installed = <<>>
          THEN /\ thrown' = "No browsers available for testing"
               /\ pc' = "aborted"
          ELSE /\ pc' = "browserTests"
               /\ UNCHANGED thrown
  /\ UNCHANGED <<besideOrchestrator, metricsVars, retryAttempt, fnCalls,
                 retryWaits, lastError, reported, browserIndex, viewportIndex,
                 peripheralFailures, reportsInvoked, finalSummary>>

\* an attempt of the current combination's runSingleTest rejects, in
\* setupTestContext or in cleanupTestContext: retry waits and goes round, or
\* rethrows after the last attempt, which nothing up to
\* runComprehensiveValidation's rethrowing catch handles
TestAttemptRejects ==
  /\ pc = "browserTests"
  /\ \E cause \in {"setup failed", "cleanup failed"} :
       /\ lastError' = cause
       /\ fnCalls' = fnCalls + 1
       /\ IF retryAttempt = retryMaxAttempts
          THEN /\ thrown' = cause
               /\ pc' = "aborted"
               /\ UNCHANGED <<retryAttempt, retryWaits>>
          ELSE /\ retryWaits' = Append(retryWaits,
                                       BackoffMs(retryBackoffMs, retryAttempt))
               /\ retryAttempt' = retryAttempt + 1
               /\ UNCHANGED <<pc, thrown>>
  /\ UNCHANGED <<besideOrchestrator, metricsVars, orchestratorVars, reported>>

\* an attempt returns a result, built by buildTestResults or by
\* handleTestError; runBrowserTests pushes it and moves to the next
\* combination, or returns after the last one
TestAttemptReturns ==
  /\ pc = "browserTests"
  /\ \E result \in AttemptResults :
       /\ reported' = ResultFor(result, availableBrowsers[browserIndex],
                                viewports[viewportIndex])
       /\ browserResults' = Append(browserResults, reported')
  /\ fnCalls' = 0
  /\ retryAttempt' = 1
  /\ retryWaits' = <<>>
  /\ IF viewportIndex < Len(viewports)
     THEN /\ viewportIndex' = viewportIndex + 1
          /\ UNCHANGED <<browserIndex, pc>>
     ELSE /\ viewportIndex' = 1
          /\ browserIndex' = browserIndex + 1
          /\ pc' = IF browserIndex < Len(availableBrowsers)
                   THEN "browserTests" ELSE "apiTests"
  /\ UNCHANGED <<besideOrchestrator, historyFile, metricsHistory,
                 apiTestResults, securityTestResults, currentMetrics,
                 lastError, thrown, availableBrowsers, peripheralFailures,
                 reportsInvoked, finalSummary>>

\* runApiTests: the suite's result, or null when it throws
RunApiTests ==
  /\ pc = "apiTests"
  /\ \E throws \in BOOLEAN :
       /\ apiTestResults' = IF throws THEN NullValue
                            ELSE ApiSuiteResult(TRUE, 100)
       /\ peripheralFailures' = IF throws
                                THEN peripheralFailures \cup {"api"}
                                ELSE peripheralFailures
  /\ pc' = "securityTests"
  /\ UNCHANGED <<besideOrchestrator, retryVars, historyFile, metricsHistory,
                 browserResults, securityTestResults, currentMetrics,
                 availableBrowsers, browserIndex, viewportIndex,
                 reportsInvoked, finalSummary>>

\* runSecurityTests: the suite's result, or null when it throws
RunSecurityTests ==
  /\ pc = "securityTests"
  /\ \E throws \in BOOLEAN :
       /\ securityTestResults' = IF throws THEN NullValue
                                 ELSE SecuritySuiteResult(<<>>)
       /\ peripheralFailures' = IF throws
                                THEN peripheralFailures \cup {"security"}
                                ELSE peripheralFailures
  /\ pc' = "process"
  /\ UNCHANGED <<besideOrchestrator, retryVars, historyFile, metricsHistory,
                 browserResults, apiTestResults, currentMetrics,
                 availableBrowsers, browserIndex, viewportIndex,
                 reportsInvoked, finalSummary>>

\* processTestResults: integrate the peripheral results into the best result
\* and record the metrics; an error of recordMetrics, thrown while scoring or
\* while saving, is caught
ProcessResults ==
  /\ pc = "process"
  /\ browserResults' = IntegratedResults(browserResults, apiTestResults,
                                         securityTestResults)
  /\ LET scored == ScoredResult(browserResults, apiTestResults,
                                securityTestResults)
     IN  IF ~CanScore(scored)
         THEN /\ peripheralFailures' = peripheralFailures \cup {"metrics"}
              /\ UNCHANGED <<currentMetrics, metricsHistory, historyFile>>
         ELSE /\ currentMetrics' = calculateQualityMetrics(scored, Today)
              /\ metricsHistory' = Append(metricsHistory, currentMetrics')
              /\ \E saved \in BOOLEAN :
                   IF saved
                   THEN /\ historyFile' = FileOf(metricsHistory')
                        /\ UNCHANGED peripheralFailures
                   ELSE /\ peripheralFailures'
                             = peripheralFailures \cup {"metrics"}
                        /\ UNCHANGED historyFile
  /\ pc' = "reports"
  /\ UNCHANGED <<besideOrchestrator, retryVars, apiTestResults,
                 securityTestResults, availableBrowsers, browserIndex,
                 viewportIndex, reportsInvoked, finalSummary>>

\* generateAllReports: aggregateResults runs outside the try block, so its
\* error leaves the run; an error while the report files are written is
\* caught and changes nothing here
GenerateAllReports ==
  /\ pc = "reports"
  /\ reportsInvoked' = TRUE
  /\ IF NoSuccessfulResults(browserResults)
     THEN /\ thrown' = "No successful test results to aggregate"
          /\ pc' = "aborted"
     ELSE /\ pc' = "summary"
          /\ UNCHANGED thrown
  /\ UNCHANGED <<besideOrchestrator, metricsVars, retryAttempt, fnCalls,
                 retryWaits, lastError, reported, availableBrowsers,
                 browserIndex, viewportIndex, peripheralFailures,
                 finalSummary>>

\* return displayFinalSummary(this.testResults, this.testStartTime)
DisplayFinalSummary ==
  /\ pc = "summary"
  /\ finalSummary' = displayFinalSummary(browserResults)
  /\ pc' = "returned"
  /\ UNCHANGED <<besideOrchestrator, metricsVars, retryVars, availableBrowsers,
                 browserIndex, viewportIndex, peripheralFailures,
                 reportsInvoked>>

OrchestratorNext ==
  \/ InitializeTracker
  \/ GetAvailableBrowsers
  \/ TestAttemptRejects
  \/ TestAttemptReturns
  \/ RunApiTests
  \/ RunSecurityTests
  \/ ProcessResults
  \/ GenerateAllReports
  \/ DisplayFinalSummary

OrchestratorSpec == OrchestratorInit /\ [][OrchestratorNext]_vars

\* ------------------------------------------ the scoring functions on their own
\* ScoringSpec gives calculateQualityMetrics, as a function of any result
\* object, runs of up to LongRun records sorted oldest first, at several load
\* times.

\* n complete records, oldest first: every pair is inverted by a minute
ReversedArticles(n) ==
  [i \in 1..n |->
     MkArticle("A story title", "pg", 0, TsOf("oldestFirst", i))]

ScoringInputs ==
  {ScoredRun(ReversedArticles(n), ms) :
     n \in 1..LongRun, ms \in LoadTimeSamples \cup {2 * performanceThreshold}}

ScoringInit ==
  /\ pc = "score"
  /\ \E r \in ScoringInputs : browserResults = <<r>>
  /\ historyFile = NoFile
  /\ metricsHistory = <<>>
  /\ apiTestResults = NoResult
  /\ securityTestResults = NoResult
  /\ currentMetrics = NoResult
  /\ RunIdle
  /\ ParserIdle
  /\ ExtractionIdle
  /\ RunnerIdle
  /\ OrchestratorIdle

\* this.currentMetrics = metrics of calculateQualityMetrics(testResults)
CalculateQualityMetrics ==
  /\ pc = "score"
  /\ currentMetrics' = calculateQualityMetrics(browserResults[1], Today)
  /\ pc' = "scored"
  /\ UNCHANGED <<besideMetrics, historyFile, metricsHistory, browserResults,
                 apiTestResults, securityTestResults>>

ScoringNext == CalculateQualityMetrics

ScoringSpec == ScoringInit /\ [][ScoringNext]_vars

\* ------------------------------------- TestRunner, the request monitoring
\* The two handlers setupTestContext registers on the page. The page emits
\* at most MaxRequestEvents "request" and MaxFailedEvents "requestfailed"
\* events; the n-th event of a kind is for the request with url n.
MAX_REQUEST_LOG == 100
MAX_FAILED_REQUESTS == 50
MaxRequestEvents == 102
MaxFailedEvents == 52

\* if (log.length < max) log.push(entry)
BoundedPush_inclusive(log, entry, max) ==
  IF Len(log) <= max THEN Append(log, entry) ELSE log

BoundedPush(log, entry, max) ==
  IF Len(log) < max THEN Append(log, entry) ELSE log

\* setupTestContext has returned: both logs are empty
RequestLogInit ==
  /\ pc = "monitoring"
  /\ RunIdle
  /\ ParserIdle
  /\ ExtractionIdle
  /\ MetricsIdle
  /\ RunnerIdle
  /\ OrchestratorIdle

\* page.on("request", ...)
OnRequest ==
  /\ pc = "monitoring"
  /\ requestsSeen < MaxRequestEvents
  /\ requestsSeen' = requestsSeen + 1
  /\ requestLog' = BoundedPush(requestLog,
                               [url |-> requestsSeen + 1, method |-> "GET",
                                timestamp |-> requestsSeen + 1],
                               MAX_REQUEST_LOG)
  /\ UNCHANGED <<pc, besideMonitor, failedRequests, failuresSeen>>

\* page.on("requestfailed", ...)
OnRequestFailed ==
  /\ pc = "monitoring"
  /\ failuresSeen < MaxFailedEvents
  /\ failuresSeen' = failuresSeen + 1
  /\ failedRequests' = BoundedPush(failedRequests,
                                   [url |-> failuresSeen + 1,
                                    failure |-> "Unknown error"],
                                   MAX_FAILED_REQUESTS)
  /\ UNCHANGED <<pc, besideMonitor, requestLog, requestsSeen>>

RequestLogNext ==
  \/ OnRequest
  \/ OnRequestFailed

RequestLogSpec == RequestLogInit /\ [][RequestLogNext]_vars

\* ------------------------------------------------------------------ claims
IsPrefix(s, t) == Len(s) <= Len(t) /\ SubSeq(t, 1, Len(s)) = s
Returned == pc = "validate"

\* the premise of C1: the 100-record target on 30-entry pages, every page
\* gave 30 records with a timestamp, every link read found an href, no failure
EveryPageFull ==
  /\ count = targetArticleCount
  /\ pageSize = HNPageSize
  /\ ~stepFailed
  /\ moreLink \notin {"none", "nohref"}
  /\ \A i \in 1..Len(pageYields) : pageYields[i] = HNPageSize

\* C1: with 30 resolvable records on every page, a next-page link on every
\* page and no failing step, getArticleElements(100) returns exactly 100
\* records and has processed exactly the pages 1 to 4.
C1_QuotaDiscipline ==
  (Returned /\ EveryPageFull)
    => (Len(articles) = 100 /\ pagesStarted = <<1, 2, 3, 4>>)

C1_Witness == Returned /\ EveryPageFull /\ Len(articles) = 100 /\ pageNum = 4

\* C2: the records the collector returns have pairwise distinct ids.
C2_DistinctIds ==
  Returned => \A i, j \in 1..Len(articles) :
                 i # j => articles[i].id # articles[j].id

\* C3: when a page exhausts its attempts, the run is reported as failed if
\* that page is the first one; for a later page the collector raises no error
\* and returns the records of the earlier pages unchanged.
C3_PageFailureSemantics ==
  (pc = "done" /\ skippedPage # 0)
    => /\ skippedPage = 1 => testResults.failed
       /\ skippedPage > 1 =>
            /\ articles = allArticleData
            /\ Len(pageYields) = skippedPage - 1

\* C4: another page is started only when the collected count is below the
\* target, the last link read had an href and fewer than 5 pages were
\* processed; at most 5 pages are processed; an absent link and the ceiling
\* lead to the return of the short result, not to an error.
C4_PageContinuation ==
  /\ [][(pc = "while" /\ pc' = "try" /\ pageNum > 1)
          => /\ Len(allArticleData) < count
             /\ moreLink = "href"
             /\ Len(pagesStarted) < maxPages]_vars
  /\ [](Len(pagesStarted) <= maxPages)
  /\ [][(moreLink' # moreLink /\ moreLink' \in {"none", "nohref"})
          => pc' = "return"]_vars
  /\ [][(pc = "while" /\ pageNum > maxPages) => pc' = "return"]_vars
  /\ [][pc = "return"
          => /\ pc' = "validate"
             /\ articles' = allArticleData
             /\ testResults' = NoResult]_vars

C4_Witness ==
  /\ Returned
  /\ pageNum > maxPages
  /\ Len(pagesStarted) = maxPages
  /\ Len(articles) < count

\* the records C5 expects of a page: its anchors that have a resolvable
\* timestamp, in anchor order
ResolvableAnchors(anchors) == SelectSeq(anchors, LAMBDA a : a.dom # "noTime")
ExpectedRecords(order, anchors) ==
  [k \in 1..Len(ResolvableAnchors(anchors)) |->
     extractArticleData(order, ResolvableAnchors(anchors)[k])]

\* C5: for every completion order of the extractions, the collected sequence
\* after a page is the sequence before it followed by the page's records with
\* a resolvable timestamp, in anchor order, cut to the remaining quota; the
\* count never exceeds the target and earlier records are never changed.
C5_AppendStep ==
  /\ [][(pc = "try" /\ pc' = "more")
          => allArticleData' =
               allArticleData \o
                 Slice0(ExpectedRecords(listingOrder, pageArticles'),
                        count - Len(allArticleData))]_vars
  /\ [](Len(allArticleData) <= count)
  /\ [][IsPrefix(allArticleData, allArticleData')]_vars

C5_Witness ==
  /\ pc = "more"
  /\ Len(pageArticles) >= 2
  /\ outOfOrder
  /\ pageArticles[1].dom = "noTime"
  /\ pageArticles[2].dom # "noTime"
  /\ Len(allArticleData) >= 2

Validated == pc \in {"validated", "removed"}
BothPresent(i) == HasTs(articles[i]) /\ HasTs(articles[i + 1])

\* C6: the accuracy of calculateSortingAccuracy lies in [0,100] for every
\* sequence and is exactly 100 for sequences of length 0 or 1.
C6_AccuracyBounds ==
  Validated
    => /\ sortingAccuracy.accuracy >= 0
       /\ sortingAccuracy.accuracy <= 10000
       /\ Len(articles) < 2 => sortingAccuracy.accuracy = 10000

C6_Witness ==
  /\ pc = "validated"
  /\ Len(articles) >= 3
  /\ \E i \in 1..Len(articles) : ~HasTs(articles[i])
  /\ sortingAccuracy.correctPairs >= 1
  /\ sortingAccuracy.incorrectPairs >= 1

\* C7: a pair with a missing timestamp is in neither the numerator nor the
\* denominator: totalPairs counts the pairs with both timestamps, equals
\* correctPairs + incorrectPairs, and accuracy = correctPairs / totalPairs.
C7_MissingPairsExcluded ==
  (Validated /\ Len(articles) >= 2)
    => /\ sortingAccuracy.totalPairs =
            Cardinality({i \in 1..(Len(articles) - 1) : BothPresent(i)})
       /\ sortingAccuracy.correctPairs + sortingAccuracy.incorrectPairs
            = sortingAccuracy.totalPairs

\* the gap, current minus next, of the pair at 1-based index i is `minutes`
GapIs(i, minutes) ==
  articles[i].timestamp - articles[i + 1].timestamp = minutes * TicksPerMinute
HasGaps ==
  /\ Len(articles) = 5
  /\ \A i \in 1..5 : HasTs(articles[i])
  /\ GapIs(1, 0 - 10) /\ GapIs(2, 5) /\ GapIs(3, 70) /\ GapIs(4, 5)

\* C8: for five records with gaps -10, 5, 70 and 5 minutes
\* detectSortingAnomalies reports exactly one sorting_error, exactly one
\* large_time_jump and consecutiveErrors = 1.
C8_AnomalyCompleteness ==
  (Validated /\ HasGaps)
    => /\ CountType(anomalies.anomalies, "sorting_error") = 1
       /\ CountType(anomalies.anomalies, "large_time_jump") = 1
       /\ anomalies.patterns.consecutiveErrors = 1

C8_Witness ==
  /\ pc = "validated"
  /\ HasGaps
  /\ anomalies.patterns.largeTimeJumps = 1
  /\ anomalies.summary.criticalIssues = 1

\* C9: two adjacent records, at any position, whose timestamps fall in the
\* same minute get exactly one duplicate_timestamp anomaly, whose
\* originalPosition is the position of the earlier of the two.
C9_DuplicateDetection ==
  Validated
    => \A i \in 1..(Len(articles) - 1) :
         (BothPresent(i)
            /\ MinuteKey(articles[i].timestamp) = MinuteKey(articles[i + 1].timestamp))
           => Cardinality({k \in 1..Len(anomalies.anomalies) :
                             /\ IsDuplicate(anomalies.anomalies[k])
                             /\ anomalies.anomalies[k].position = i
                             /\ anomalies.anomalies[k].originalPosition = i - 1}) = 1

MissingCount(v, field) ==
  CASE field = "title" -> v.statistics.missingTitle
    [] field = "timestamp" -> v.statistics.missingTimestamp
    [] field = "author" -> v.statistics.missingAuthor
    [] OTHER -> v.statistics.missingScore

\* C10: removing one present required field from one record strictly
\* decreases completenessRatio, raises that field's missing count by exactly
\* 1 and leaves the other fields' missing counts unchanged; only records with
\* all four fields present count as complete.
C10_CompletenessMonotone ==
  pc = "removed"
    => /\ dataValidation.statistics.complete <=
            Cardinality({i \in 1..Len(articles) :
                           \A field \in RequiredFields :
                              FieldPresent(articles[i], field)})
       /\ dataValidation.completenessRatio.num * prevValidation.completenessRatio.den
            < prevValidation.completenessRatio.num * dataValidation.completenessRatio.den
       /\ \A field \in RequiredFields :
            MissingCount(dataValidation, field) =
              MissingCount(prevValidation, field)
                + (IF field = removed[2] THEN 1 ELSE 0)


\* the text is one the parser is meant to accept: "just now", "now", or
\* "<N> <unit> ago" with N a positive integer and a unit it knows
WellFormedPhrase(p) ==
  IF p.kind = "other" THEN p.text \in {"just now", "now"}
  ELSE /\ p.num \in {"3", "15"}
       /\ p.unit \in {"minute", "hour", "day", "month", "year", "Hour"}
       /\ p.end = "ago"

\* C15: for empty text, unrecognized phrasing and every "<N> <unit> ago" whose
\* N is not a positive integer the time parser returns its failure value
\* (null), and the collector then takes the timestamp as unavailable.
C15_ParserFailure ==
  (pc # "parse" /\ ~WellFormedPhrase(phrase))
    => parsed = NullTs /\ pc # "timestampFound"

\* the strategies whose candidate passes the validity predicate, and the
\* extraction attempts whose timestamp read resolves
PassingStrategies ==
  {k \in 1..StrategyCount :
     /\ titleStrategies[k] \in {"invalid", "valid", "padded"}
     /\ (k = 5 => browserName = "firefox")
     /\ isValidTitle(CandidateText(k, titleStrategies[k]))}
ResolvingAttempts == {a \in 1..maxRetries : timestampTexts[a] = ResolvableText}
Least(S) == CHOOSE k \in S : \A j \in S : k <= j

\* C11: the title of an extracted record is the trimmed text of the first
\* strategy, in list order, whose candidate passes the validity predicate
\* (strategies that throw, find nothing or find an invalid candidate are
\* skipped), and extractionAttempt is the number of the record-level attempt
\* that succeeded, not the index of the winning strategy.
C11_FallbackChainOrder ==
  (pc \in {"extracted", "collected"} /\ ~IsNullArticle(extracted))
    => /\ ResolvingAttempts # {}
       /\ extracted.extractionAttempt = Least(ResolvingAttempts)
       /\ PassingStrategies # {}
            => TextChars(extracted.title)
                 = TrimChars(TextChars(CandidateText(Least(PassingStrategies),
                               titleStrategies[Least(PassingStrategies)])))

C11_Witness ==
  /\ pc = "extracted"
  /\ titleStrategies[1] = "invalid"
  /\ titleStrategies[2] = "throws"
  /\ titleStrategies[3] = "padded"
  /\ titleStrategies[4] = "valid"
  /\ extracted.title = "Title 3"
  /\ extracted.extractionAttempt = 2

\* C12: a record with a resolvable timestamp for which no title strategy
\* yields a valid candidate is still collected, with the sentinel title, and
\* validateArticleData counts it in missingTitle and not as complete.
C12_SentinelTitleDegrades ==
  (pc = "collected" /\ PassingStrategies = {})
    => /\ articles = <<extracted>>
       /\ extracted.title = "No title"
       /\ dataValidation.statistics.missingTitle = 1
       /\ dataValidation.statistics.complete = 0

\* the result recordMetrics was called with in this suite run
Scored == ScoredResult(browserResults, apiTestResults, securityTestResults)

\* C13: a run result with sorting accuracy 100, completenessRatio 100, no
\* anomalies and no security or API results gets overall.grade "A+", whatever
\* its number of records and for every load time up to 5000 ms.
C13_ScoringStability ==
  (/\ pc = "recorded"
   /\ Scored.sortingAccuracy.accuracy = 10000
   /\ Scored.dataValidation.completenessRatio.num
        = 100 * Scored.dataValidation.completenessRatio.den
   /\ Scored.anomalies.anomalies = <<>>
   /\ ~HasProp(Scored, "security")
   /\ ~HasProp(Scored, "api")
   /\ Scored.performance.loadTime <= performanceThreshold)
    => currentMetrics.overall.grade = "A+"

WithinRetention(entry) == entry.timestamp > Today - retentionDays

\* C14: the history persisted by a completed recordMetrics is the previously
\* persisted entries that lie within the 30-day retention window, unchanged
\* and in the same order, followed by exactly one new snapshot, for every
\* outcome of the load step.
C14_HistoryAppendOnly ==
  [][(pc = "process" /\ pc' = "recorded")
       => historyFile'.entries
            = Append(SelectSeq(historyFile.entries, WithinRetention),
                     currentMetrics')]_vars

\* C19: when the security suite (the API suite) returned results, the
\* recorded snapshot's security (apiQuality) category is computed from them:
\* the security score is 100 less the deductions of the vulnerabilities
\* found, availability and data integrity are those the API suite measured.
C19_PeripheralSignalsScored ==
  pc = "recorded"
    => /\ IsObject(securityTestResults)
            => currentMetrics.security.securityScore
                 = calculateSecurityScore(securityTestResults)
       /\ IsObject(apiTestResults)
            => /\ currentMetrics.apiQuality.availabilityH
                    = IF apiTestResults.testResults.apiAvailability
                           .overallStatus = "PASS"
                      THEN 10000 ELSE 0
               /\ currentMetrics.apiQuality.dataIntegrityH
                    = 100 * apiTestResults.testResults.dataIntegrity
                              .dataQualityScore

\* C16: when a timeout fires the failure is delivered to the retry layer: a
\* run whose navigation step timed out is reported as failed only after the
\* retry helper has used all of its attempts.
C16_TimeoutReachesRetryLayer ==
  (/\ pc = "returned"
   /\ reported = FailedWith(ErrorCarrying("withTimeout", "Navigation timeout")))
    => retryAttempt = retryMaxAttempts

LinearWaits(n) == [k \in 1..n |-> 1000 * k]

SomeSucceeded == \E i \in 1..Len(browserResults) : ~browserResults[i].failed

\* C17: when the API suite, the security suite or the recording of the
\* metrics threw and at least one browser test succeeded, the run does not
\* end in a rethrown error: generateAllReports is invoked and the final
\* summary is returned.
C17_PeripheralFailureDoesNotBlock ==
  /\ (pc = "aborted" /\ peripheralFailures # {}) => ~SomeSucceeded
  /\ (pc = "returned" /\ peripheralFailures # {})
       => /\ reportsInvoked
          /\ finalSummary = displayFinalSummary(browserResults)
  /\ (pc \in {"summary", "returned"}) => reportsInvoked

\* all three peripheral steps failed, one browser test succeeded and another
\* failed, and the summary was returned after the reports
C17_Witness ==
  /\ pc = "returned"
  /\ peripheralFailures = {"api", "security", "metrics"}
  /\ SomeSucceeded
  /\ \E i \in 1..Len(browserResults) : browserResults[i].failed
  /\ reportsInvoked
  /\ finalSummary = [passed |-> FALSE]

\* the combinations of the available browsers, browser-major
Combinations ==
  [k \in 1..(Len(availableBrowsers) * Len(viewports)) |->
     [browser |-> availableBrowsers[((k - 1) \div Len(viewports)) + 1],
      viewport |-> viewports[((k - 1) % Len(viewports)) + 1]]]

\* C18: a failing browser x viewport test, in its steps or in its set-up on
\* every retry attempt, does not stop the run: once runBrowserTests is over,
\* however the run ended, there is exactly one result per available
\* combination, in browser-major order.
C18_GracefulDegradation ==
  (/\ availableBrowsers # <<>>
   /\ pc \notin {"initialize", "browsers", "browserTests"})
    => /\ Len(browserResults) = Len(Combinations)
       /\ \A k \in 1..Len(browserResults) :
            /\ browserResults[k].browser = Combinations[k].browser
            /\ browserResults[k].viewport = Combinations[k].viewport

AllTimestampsPresent == \A i \in 1..Len(articles) : HasTs(articles[i])

\* the anomalies of `type` reported for the pair at 0-based position i
ReportedAt(type, i) ==
  \E k \in 1..Len(anomalies.anomalies) :
    /\ anomalies.anomalies[k].type = type
    /\ anomalies.anomalies[k].position = i

\* the pair at 0-based position i is inverted: current is older than next
Inverted(i) == articles[i + 1].timestamp < articles[i + 2].timestamp

\* C22: with both timestamps present, a sorting_error is reported for a pair
\* exactly when current.timestamp < next.timestamp, however small the
\* inversion; with all timestamps present criticalIssues equals the
\* incorrectPairs of calculateSortingAccuracy.
C22_SortingErrorIffInverted ==
  Validated
    => /\ \A i \in 0..(Len(articles) - 2) :
            BothPresent(i + 1)
              => (ReportedAt("sorting_error", i) <=> Inverted(i))
       /\ AllTimestampsPresent
            => anomalies.summary.criticalIssues
                 = sortingAccuracy.incorrectPairs

\* the longest run of consecutive inverted pairs
LongestInvertedRun ==
  LET pairs == 0..(Len(articles) - 2)
      runs == {0} \cup {hi - lo + 1 : lo \in pairs, hi \in pairs}
      IsRun(n) == n = 0 \/ \E lo \in pairs :
                             /\ lo + n - 1 \in pairs
                             /\ \A i \in lo..(lo + n - 1) : Inverted(i)
  IN  CHOOSE n \in runs : IsRun(n) /\ \A m \in runs : IsRun(m) => m <= n

\* C23: with all timestamps present, patterns.consecutiveErrors is the length
\* of the longest run of consecutive pairs that are sorting errors, and 0
\* when there is none.
C23_ConsecutiveErrorsIsLongestRun ==
  (Validated /\ AllTimestampsPresent)
    => anomalies.patterns.consecutiveErrors = LongestInvertedRun

\* the timestamps of the pair at 0-based position i lie more than 60 minutes
\* apart, in either direction
FarApart(i) ==
  Abs(articles[i + 1].timestamp - articles[i + 2].timestamp)
    > LargeJumpMinutes * TicksPerMinute

\* C24: a large_time_jump is reported for every pair whose timestamps are
\* more than 60 minutes apart, correctly ordered or inverted, and
\* patterns.largeTimeJumps is the number of such pairs.
C24_LargeJumpEitherDirection ==
  (Validated /\ AllTimestampsPresent)
    => /\ \A i \in 0..(Len(articles) - 2) :
            FarApart(i) => ReportedAt("large_time_jump", i)
       /\ anomalies.patterns.largeTimeJumps
            = Cardinality({i \in 0..(Len(articles) - 2) : FarApart(i)})

\* C21: a record whose time text no attempt can resolve is dropped without
\* being retried: extractArticleData makes exactly one extraction attempt
\* for it and yields no record.
C21_UnresolvableNotRetried ==
  (pc \in {"extracted", "dropped"} /\ ResolvingAttempts = {})
    => /\ IsNullArticle(extracted)
       /\ ExtractionAttemptsMade(titleStrategies, browserName,
                                 timestampTexts, 1) = 1

\* C25: the functional consistencyScore is floored at zero: it is never
\* negative, whatever patterns.consecutiveErrors is.
C25_ConsistencyScoreFloored ==
  pc = "scored" => currentMetrics.functional.consistencyScore >= 0

InRange(score) == 0 <= score /\ score <= 100

\* C26: for every run result that can be scored, overall.value and the five
\* component scores of calculateOverallQualityScore are numbers in [0,100].
C26_ScoresInRange ==
  pc = "recorded"
    => /\ ~currentMetrics.overall.isNaN
       /\ InRange(currentMetrics.overall.value)
       /\ InRange(currentMetrics.overall.components.functional)
       /\ InRange(currentMetrics.overall.components.performance)
       /\ InRange(currentMetrics.overall.components.security)
       /\ InRange(currentMetrics.overall.components.dataQuality)
       /\ InRange(currentMetrics.overall.components.apiQuality)

\* the positions inside getArticleElements
CollectorPositions == {"while", "try", "more"}

C30_BoundedAppendOnlyLogs ==
  [][/\ Len(requestLog') <= MAX_REQUEST_LOG
     /\ Len(failedRequests') <= MAX_FAILED_REQUESTS
     /\ IsPrefix(requestLog, requestLog')
     /\ IsPrefix(failedRequests, failedRequests')
     /\ Len(requestLog) = MAX_REQUEST_LOG => requestLog' = requestLog
     /\ Len(failedRequests) = MAX_FAILED_REQUESTS
          => failedRequests' = failedRequests]_vars

C30_Witness ==
  /\ Len(requestLog) = MAX_REQUEST_LOG
  /\ requestsSeen > MAX_REQUEST_LOG
  /\ Len(failedRequests) = MAX_FAILED_REQUESTS
  /\ failuresSeen > MAX_FAILED_REQUESTS

\* C27: every browser an attempt of runSingleTest has launched is closed
\* when the attempt is over, on every path, the path on which the context
\* or the page cannot be created after the launch included.
C27_BrowserAlwaysClosed ==
  pc \in {"retry", "returned", "threw"} => openBrowsers = 0

\* C28: once withTimeout has rejected, the operation it wrapped issues no
\* further navigation or selector wait on the page, before or after the
\* browser has been closed.
C28_TimedOutOperationStops ==
  \A i \in 1..Len(lateCalls) :
    lateCalls[i].op \notin {"goto", "waitForSelector"}

====
